---- MODULE Spec2Model ----
(***************************************************************************)
(* A model of src/src/pocketflow.js: the three-phase Step (BaseNode), the  *)
(* Retrying Step (Node), the Sequential and Parallel Batch Steps           *)
(* (BatchNode, ParallelBatchNode), the successor map and the Orchestrators *)
(* (Flow, BatchFlow, ParallelBatchFlow).                                   *)
(*                                                                         *)
(* Every action is one continuation of the JavaScript event loop: the code *)
(* that runs, without suspension, between two awaits.  The user's phase    *)
(* functions prep, exec, execFallback and post are asynchronous and        *)
(* opaque: an action calls one, a later action is its settling, and what   *)
(* it settles with (a value, an error, an action label) is chosen there.   *)
(*                                                                         *)
(* Spec       one direct run(shared) of a Node, BatchNode or               *)
(*            ParallelBatchNode over the items its prep returned.          *)
(* SpecFlow   registration of successors on three objects, then runs of    *)
(*            the Flow F over the graph, a Flow possibly nested in it.     *)
(* SpecReuse  a graph of default edges; runs of F and run(shared) on the   *)
(*            Steps themselves follow each other.                          *)
(* SpecPair   runs of F over A.next(B), A.on("x", C) that follow each      *)
(*            other, each recorded and kept to be compared with the next.  *)
(* SpecNest   runs of F over a graph that starts at the Flow C, which      *)
(*            starts at B.                                                 *)
(* SpecOrch   runs of a Flow, BatchFlow or ParallelBatchFlow O over        *)
(*            S.next(T), with ParallelBatchNodes and a nested Flow, the    *)
(*            parameters of O and of each parameter set, and a field of    *)
(*            the context that S reads in prep and writes in post.         *)
(* SpecBatch  the batch classes: a batch Step run on its own, or a batch   *)
(*            Flow over its graph.                                         *)
(* SpecPipe   one run of the Flow of createYouTubeProcessorFlow            *)
(*            (src/src/flow.js) over the Steps of the Glim pipeline.       *)
(***************************************************************************)
EXTENDS Integers, Sequences, FiniteSets, TLC

\* ------------------------------------------------------------------ bounds
\* the longest collection prep returns to a batch Step
MaxItems == 3
\* the largest maxRetries a Step is constructed with
MaxRetries == 3
\* the largest maxRetries of a Step of the graph
MaxFlowRetries == 2
\* the most registrations of successors made on the graph
MaxReg == 3
\* the most Steps one top-level run of a Flow visits, nested Flows and
\* the Steps they visit included
MaxVisits == 3
\* the most parameter sets prep of a batch Flow returns
MaxSets == 2
\* the items prep of a ParallelBatchNode of a graph returns
MaxFanOut == 2

\* ------------------------------------------------------------ Step, values
Kinds == {"Node", "BatchNode", "ParallelBatchNode"}

\* What a phase returns or raises: the item it was computed from, the
\* attempt of the cycle that produced it, and who produced it.
Val(item, k, via) == [of |-> item, attempt |-> k, via |-> via]
NoVal == Val(0, 0, "none")
\* the value exec returns on attempt k for an item
ExecOut(item, k) == Val(item, k, "exec")
\* the error exec raises on attempt k for an item
ExecErr(item, k) == Val(item, k, "execError")
\* the value / the error of an overridden execFallback
FallbackOut(item) == Val(item, 0, "fallback")
FallbackErr(item) == Val(item, 0, "fallbackError")
\* new Error("Unexpected end of retry loop")
LoopEndError == Val(0, 0, "Unexpected end of retry loop")

\* The collection prep returns when it returns one of len items: distinct
\* items, none equal to its own position.
ItemsOf(len) == [i \in 1..len |-> len + 1 - i + 10]

\* The state of one retry cycle, one call of Node._exec.
FreshCycle ==
    [pc |-> "notStarted", item |-> 0, execCalls |-> 0, fails |-> 0,
     fallbackCalls |-> 0, waits |-> 0, result |-> NoVal, error |-> NoVal,
     fallbackArg |-> NoVal]

VARIABLES
    kind,          \* the class of the Step that is run
    maxRetries,    \* this.maxRetries
    wait,          \* this.wait
    fallbackKind,  \* "default": Node.execFallback; "override": a subclass's
    prepRes,       \* what prep returns: [isArray, items]
    currentRetry,  \* this.currentRetry of the Step that is run
    npc,           \* where run(shared) is: idle, prep, exec, post, done, raised
    cyc,           \* the retry cycles, by position of their item
    results,       \* the local results of BatchNode._exec
    postArg,       \* the execRes post was called with (a single value as <<v>>)
    postCalls,     \* how often post was called
    runError,      \* the error run(shared) raised
    doneOrder      \* the cycles in the order in which they settled

nodeVars == <<kind, maxRetries, wait, fallbackKind, prepRes, currentRetry,
              npc, cyc, results, postArg, postCalls, runError, doneOrder>>

\* The graph: three objects that successors are registered on and between,
\* and the Flow F that is run.  A and B are Nodes; C is a Node or a Flow.
Objs == {"A", "B", "C"}
AllObjs == Objs \cup {"F"}
None == "none"
\* the action labels successors are registered under
RegLabels == {"default", "x"}
\* what post returns: nothing, the empty string, or a label
Undefined == "undefined"
Actions == {Undefined, "", "default", "x", "y"}

\* run(shared) has not returned
Pending == "pending"

\* no run is recorded
NoPrev == [status |-> "none", obs |-> <<>>]

VARIABLES
    successors,    \* _successors of every object: label -> object or None
    latest,        \* history: the target last registered, by source and label
    replaced,      \* history: the targets registered and then overwritten
    regCount,      \* the registrations made so far
    tmpl,          \* the fields of every object as constructed: its class,
                   \* currentRetry and maxRetries of a Node, start of a Flow
    mode,          \* build: registering; direct: X.run(shared); flow: F.run(shared)
    status,        \* of the run: idle, running, done, raised
    stack,         \* the objects being run, outermost first: the object
                   \* run(shared) was called on, then the run-scoped copy
                   \* each _orchestrate is awaiting
    phase,         \* of the innermost object: prep, exec, post
    visit,         \* the retry cycle of the innermost object's visit
    visits,        \* history: the objects _orchestrate has run, in order
    lastHop,       \* history: the last successor lookup: from, action, to
    explicit,      \* history: some post of the run returned an action
    flowPostArg,   \* the execRes post of the innermost object was called with
    flowError,     \* the error the run raised
    postLog,       \* history: the objects whose post was called, in order
    runAction,     \* what run(shared) returned to its caller
    observe,       \* whether the runs are recorded to be compared
    obs,           \* history: for each Step of the run whose cycle returned,
                   \* what it returned, how, and what post got and returned
    prev           \* history: status and obs of the run before this one

histVars == <<postLog, runAction>>

pairVars == <<observe, obs, prev>>

flowVars == <<successors, latest, replaced, regCount, tmpl, mode, status,
              stack, phase, visit, visits, lastHop, explicit, flowPostArg,
              flowError, histVars, pairVars>>

\* A Flow, BatchFlow or ParallelBatchFlow O that starts at S, with S.next(T);
\* S is a Node or a ParallelBatchNode, T is one of these or a Flow that
\* starts at the Node U.
OrchObjs == {"O", "S", "T", "U"}

\* the context object the caller passes to O.run(shared)
Ctx == "ctx"

VARIABLES
    oclass,        \* the class of O
    ostart,        \* this.start of O: S, or none after new Flow()
    stepKind,      \* the class of S, T and U
    orchRetries,   \* maxRetries of the Steps
    batchParams,   \* what prep of O returns: [isArray, len]; when it is no
                   \* array, nothing (len 0) or one object of parameters
    ophase,        \* where O.run(shared) is: idle, prep, orch, post, done,
                   \* raised
    oshared,       \* the shared that O._run was called with
    trav,          \* the calls of O._orchestrate, one for each parameter
                   \* set: its status, the objects it is running (innermost
                   \* last) with the shared each _run was called with, the
                   \* phase of the innermost, this.currentRetry of the
                   \* innermost and the retry cycles of its items
    ctxLog,        \* history: the calls of prep, exec and post: on which
                   \* object, and the first argument
    oerror,        \* the error O.run(shared) raised
    oparams,       \* this._params of O
    defs,          \* the objects S, T and U of the graph: their _params,
                   \* currentRetry and _successors
    count,         \* the field shared.count of the context
    ohist          \* history: whether O has been run before this run, the
                   \* calls of O.post in this run, the calls of _orchestrate
                   \* in the order they were made, the last write of
                   \* shared.count: from which value read, and how many
                   \* writes there were, and the second argument of each
                   \* call of O.post

VARIABLE
    pipe           \* the run of the Glim pipeline: its status, the Step being
                   \* run, the Steps visited and the actions their post
                   \* returned, in order, and the number of items prep of
                   \* ProcessContent returns

orchVars == <<oclass, ostart, stepKind, orchRetries, batchParams, ophase, oshared,
              trav, ctxLog, oerror, oparams, defs, count, ohist>>

\* the keys of the parameters; the value of a key that is not there, the
\* value O was given for a key, and the value parameter set t has for one
Keys == {"a", "b", "c", "d"}
Absent == [from |-> "none", of |-> 0]
OwnVal == [from |-> "own", of |-> 0]
SetVal(t) == [from |-> "set", of |-> t]
\* the value an object of the graph was given for a key before the runs
StepVal == [from |-> "step", of |-> 0]

\* O.setParams({a: ..., b: ...}) before the runs
OwnParams == [k \in Keys |-> IF k \in {"a", "b"} THEN OwnVal ELSE Absent]

\* element t of what prep of a batch Flow returns, or for t = 1 the object
\* prep of a Flow returns: {b: ..., c: ...}
BatchParam(t) ==
    [k \in Keys |-> IF k \in {"b", "c"} THEN SetVal(t) ELSE Absent]

\* the parameters a Step is constructed with: this._params = {}
NoParams == [k \in Keys |-> Absent]

\* S.setParams({b: ..., d: ...}), and the same on T and U, before the runs
StepParams == [k \in Keys |-> IF k \in {"b", "d"} THEN StepVal ELSE Absent]

\* no pipeline is run
NoPipe == [status |-> "idle", cur |-> None, visits |-> <<>>, acts |-> <<>>,
           items |-> 0]

FreshTrav ==
    [st |-> "notStarted", stack |-> <<>>, phase |-> "none", cr |-> 0,
     cyc |-> [i \in 1..MaxFanOut |-> FreshCycle], error |-> NoVal]

NoWrite == [read |-> 0, n |-> 0]
FreshHist ==
    [rerun |-> FALSE, posts |-> 0, calls |-> <<>>, write |-> NoWrite,
     postPrep |-> <<>>]

\* no Flow over parameter sets
OrchIdle ==
    /\ oclass = "Flow"
    /\ ostart = None
    /\ stepKind = [o \in {"S", "T", "U"} |-> "Node"]
    /\ orchRetries = 1
    /\ batchParams = [isArray |-> FALSE, len |-> 0]
    /\ ophase = "idle"
    /\ oshared = "none"
    /\ trav = [t \in 1..MaxSets |-> FreshTrav]
    /\ ctxLog = {}
    /\ oerror = NoVal
    /\ oparams = NoParams
    /\ defs = [o \in {"S", "T", "U"} |->
                 [params |-> NoParams, currentRetry |-> 0,
                  successors |-> [l \in RegLabels |-> None]]]
    /\ count = 0
    /\ ohist = FreshHist

\* no Flow over parameter sets and no pipeline
NoOrch == OrchIdle /\ pipe = NoPipe

vars == <<nodeVars, flowVars, orchVars, pipe>>

\* -------------------------------------------------------- Node._exec, lines
\* a loop that goes on from the currentRetry it finds
ForInitKeep(cr) == cr

\* this.currentRetry = 0, the initialisation of the for loop
ForInit(cr) == 0

\* The loop body runs once before the test, as in a do-while loop.
LoopCondDoWhile(cr, n) == cr < n \/ cr = 0

\* this.currentRetry < this.maxRetries
LoopCond(cr, n) == cr < n

\* the last-attempt test compared with maxRetries itself
IsLastAttemptOffByOne(cr, n) == cr = n

\* the last-attempt test true one attempt early
IsLastAttemptEarly(cr, n) == cr >= n - 2

\* this.currentRetry === this.maxRetries - 1
IsLastAttempt(cr, n) == cr = n - 1

\* The catch block never sleeps.
MustSleepNever(w) == FALSE

\* this.wait > 0
MustSleep(w) == w > 0

\* The number of cycles _exec runs: one for a Node, one per item for the
\* batch Steps, none when prep returned no array.
NCycles ==
    IF kind = "Node" THEN 1
    ELSE IF prepRes.isArray THEN Len(prepRes.items) ELSE 0

Cycles == 1..NCycles

\* the prepRes of cycle i: prep's result for a Node, item i for a batch Step
ItemOf(i) == prepRes.items[i]

\* The loop test followed by the call of exec, with currentRetry = cr and
\* maxRetries = n: the cycle c awaits exec, or the loop is left and the error
\* after it is thrown.
EnterLoop(c, cr, n) ==
    IF LoopCond(cr, n)
    THEN [c EXCEPT !.pc = "awaitExec", !.execCalls = @ + 1]
    ELSE [c EXCEPT !.pc = "threw", !.error = LoopEndError]

\* The catch block (exec raised e) up to its first suspension: the call of
\* execFallback on the last attempt, else the sleep when wait > 0.  Neither
\* changes currentRetry.
Catch(c, cr, n, w, e) ==
    LET f == [c EXCEPT !.fails = @ + 1] IN
    IF IsLastAttempt(cr, n)
    THEN [f EXCEPT !.pc = "awaitFallback", !.fallbackCalls = @ + 1,
                   !.fallbackArg = e]
    ELSE IF MustSleep(w)
    THEN [f EXCEPT !.pc = "sleeping", !.waits = @ + 1]
    ELSE [f EXCEPT !.pc = "caught"]

\* a default fallback that throws an error of its own
execFallbackNewError(p, error) == Val(p, 0, "fallbackError")

\* Node.execFallback(prepRes, error): throw error
execFallback(p, error) == error

\* results.unshift(result)
Unshift(rs, r) == <<r>> \o rs

\* results.push(result) in BatchNode._exec
Push(rs, r) == Append(rs, r)

\* the cycle c returns v / raises e out of Node._exec
Returned(c, v) == [c EXCEPT !.pc = "returned", !.result = v]
Threw(c, e) == [c EXCEPT !.pc = "threw", !.error = e]

Ended(c) == c.pc \in {"returned", "threw"}

\* The array in the order in which the promises settled.
PromiseAllAsSettled(c, order) == [j \in 1..Len(order) |-> c[order[j]].result]

\* await Promise.all(promises) resolves to the values of the promises in the
\* order of the promises, whatever the order in which they settled
PromiseAll(c, order) == [j \in Cycles |-> c[j].result]

\* The join waits for every promise and drops the rejections.
JoinIgnoresRejection(c) == FALSE

\* Promise.all rejects as soon as one of its promises rejects
JoinRejects(c) == c.pc = "threw"

\* The loop over the items catches what an item raises.
BatchSwallows(c) == FALSE

\* BatchNode._exec awaits super._exec(item) outside any try block: what the
\* cycle of an item raises leaves the loop
BatchPropagates(c) == c.pc = "threw"

\* ------------------------------------------------- run(shared) of one Step
TypeOK ==
    /\ kind \in Kinds
    /\ maxRetries \in 0..MaxRetries
    /\ wait \in {0, 1}
    /\ fallbackKind \in {"default", "override"}
    /\ currentRetry \in 0..(MaxRetries + MaxItems + 1)
    /\ npc \in {"idle", "prep", "exec", "post", "done", "raised"}
    /\ postCalls \in 0..1

NodeInit ==
    /\ kind \in Kinds
    /\ maxRetries \in 0..MaxRetries
    /\ wait \in {0, 1}
    /\ fallbackKind \in {"default", "override"}
    /\ \/ /\ kind = "Node"
          /\ prepRes = [isArray |-> FALSE, items |-> ItemsOf(1)]
       \/ /\ kind # "Node"
          /\ \/ prepRes = [isArray |-> FALSE, items |-> <<>>]
             \/ \E len \in 0..MaxItems :
                    prepRes = [isArray |-> TRUE, items |-> ItemsOf(len)]
    /\ currentRetry = 0
    /\ npc = "idle"
    /\ cyc = [i \in 1..MaxItems |-> FreshCycle]
    /\ results = <<>>
    /\ postArg = <<>>
    /\ postCalls = 0
    /\ runError = NoVal
    /\ doneOrder = <<>>

\* post(shared, p, e) is called with e
CallPost(e) ==
    /\ npc' = "post"
    /\ postArg' = e
    /\ postCalls' = postCalls + 1
    /\ UNCHANGED runError

\* A promise that has settled can be settled again.
SettledNever(state) == FALSE

\* the promise of Promise.all, and with it that of run, settles once: what
\* the cycles do after it was rejected does not change its outcome
Settled(state) == state # "exec"

\* run(shared) raises err
Raise(err) ==
    /\ npc' = "raised"
    /\ runError' = err
    /\ UNCHANGED <<postArg, postCalls>>

\* cycle i has settled
Settle(c1, cr1, i, order) ==
    IF kind = "Node"
    THEN \* BaseNode._run: const e = await this._exec(p); this.post(shared, p, e)
         /\ cyc' = c1
         /\ currentRetry' = cr1
         /\ UNCHANGED results
         /\ IF c1[i].pc = "returned"
            THEN CallPost(<<c1[i].result>>)
            ELSE Raise(c1[i].error)
    ELSE IF kind = "BatchNode"
    THEN \* BatchNode._exec: results.push(result) and the next item
         IF BatchPropagates(c1[i])
         THEN /\ cyc' = c1
              /\ currentRetry' = cr1
              /\ UNCHANGED results
              /\ Raise(c1[i].error)
         ELSE /\ results' = Push(results, c1[i].result)
              /\ IF i < NCycles
                 THEN LET cr2 == ForInit(cr1)
                          c2 == [c1 EXCEPT ![i + 1] =
                                    EnterLoop([@ EXCEPT !.item = ItemOf(i + 1)],
                                              cr2, maxRetries)]
                      IN /\ cyc' = c2
                         /\ currentRetry' = cr2
                         /\ IF c2[i + 1].pc = "threw"
                            THEN Raise(c2[i + 1].error)
                            ELSE UNCHANGED <<npc, postArg, postCalls, runError>>
                 ELSE /\ cyc' = c1
                      /\ currentRetry' = cr1
                      /\ CallPost(results')
    ELSE \* ParallelBatchNode._exec: Promise.all over the items' cycles
         /\ cyc' = c1
         /\ currentRetry' = cr1
         /\ UNCHANGED results
         /\ IF Settled(npc)
            THEN UNCHANGED <<npc, postArg, postCalls, runError>>
            ELSE IF JoinRejects(c1[i])
            THEN Raise(c1[i].error)
            ELSE IF \A j \in Cycles : c1[j].pc = "returned"
            THEN CallPost(PromiseAll(c1, order))
            ELSE UNCHANGED <<npc, postArg, postCalls, runError>>

\* What follows in the same continuation when cycle i has taken a step that
\* left the cycles as c1 and this.currentRetry as cr1.
Continue(c1, cr1, i) ==
    IF ~Ended(c1[i])
    THEN /\ cyc' = c1
         /\ currentRetry' = cr1
         /\ UNCHANGED <<npc, results, postArg, postCalls, runError, doneOrder>>
    ELSE /\ doneOrder' = Append(doneOrder, i)
         /\ Settle(c1, cr1, i, Append(doneOrder, i))

\* run(shared): BaseNode.run calls _run, which calls prep
Run ==
    /\ npc = "idle"
    /\ npc' = "prep"
    /\ UNCHANGED <<flowVars, orchVars, pipe, kind, maxRetries, wait,
                   fallbackKind, prepRes, currentRetry,
                   cyc, results, postArg, postCalls, runError, doneOrder>>

\* prep returned p; _exec(p) starts and runs up to its first await
PrepReturn ==
    /\ npc = "prep"
    /\ UNCHANGED <<flowVars, orchVars, pipe, kind, maxRetries, wait,
                   fallbackKind, prepRes>>
    /\ IF kind = "Node"
       THEN LET cr1 == ForInit(currentRetry)
                c1 == [cyc EXCEPT ![1] =
                          EnterLoop([@ EXCEPT !.item = ItemOf(1)], cr1, maxRetries)]
            IN /\ cyc' = c1
               /\ currentRetry' = cr1
               /\ UNCHANGED results
               /\ IF c1[1].pc = "threw"
                  THEN /\ Raise(c1[1].error)
                       /\ doneOrder' = <<1>>
                  ELSE /\ npc' = "exec"
                       /\ UNCHANGED <<postArg, postCalls, runError, doneOrder>>
       ELSE IF ~prepRes.isArray \/ NCycles = 0
       THEN \* if (!items || !Array.isArray(items)) return []; or no item
            /\ CallPost(<<>>)
            /\ UNCHANGED <<currentRetry, cyc, results, doneOrder>>
       ELSE IF kind = "BatchNode"
       THEN LET cr1 == ForInit(currentRetry)
                c1 == [cyc EXCEPT ![1] =
                          EnterLoop([@ EXCEPT !.item = ItemOf(1)], cr1, maxRetries)]
            IN /\ cyc' = c1
               /\ currentRetry' = cr1
               /\ UNCHANGED results
               /\ IF c1[1].pc = "threw"
                  THEN /\ Raise(c1[1].error)
                       /\ doneOrder' = <<1>>
                  ELSE /\ npc' = "exec"
                       /\ UNCHANGED <<postArg, postCalls, runError, doneOrder>>
       ELSE \* items.map(async (item) => await super._exec(item)): every
            \* cycle runs to its call of exec, in the order of the items
            LET cr1 == ForInit(currentRetry)
                c1 == [j \in 1..MaxItems |->
                          IF j \in Cycles
                          THEN EnterLoop([cyc[j] EXCEPT !.item = ItemOf(j)],
                                         cr1, maxRetries)
                          ELSE cyc[j]]
            IN /\ cyc' = c1
               /\ currentRetry' = cr1
               /\ UNCHANGED results
               /\ IF c1[1].pc = "threw"
                  THEN /\ Raise(c1[1].error)
                       /\ doneOrder' = [j \in Cycles |-> j]
                  ELSE /\ npc' = "exec"
                       /\ UNCHANGED <<postArg, postCalls, runError, doneOrder>>

\* A retry calls exec without the prepRes.
ExecArgFirstOnly(p, k) == IF k = 1 THEN p ELSE 0

\* this.exec(prepRes) at attempt k: the parameter of _exec, which no
\* iteration assigns
ExecArg(p, k) == p

\* exec of cycle i returns: return await this.exec(prepRes)
ExecResolve(i) ==
    /\ cyc[i].pc = "awaitExec"
    /\ UNCHANGED <<flowVars, orchVars, pipe, kind, maxRetries, wait,
                   fallbackKind, prepRes>>
    /\ Continue([cyc EXCEPT ![i] =
                    Returned(@, ExecOut(ExecArg(cyc[i].item, cyc[i].execCalls),
                                        cyc[i].execCalls))],
                currentRetry, i)

\* The for loop's increment, test and next call of exec, which follow the
\* catch block at once when there is no sleep.
Retry(c, cr, n) ==
    IF c.pc = "caught" THEN EnterLoop(c, cr + 1, n) ELSE c

\* exec of cycle i raises: the catch block, and with no sleep the next
\* iteration
ExecReject(i) ==
    /\ cyc[i].pc = "awaitExec"
    /\ UNCHANGED <<flowVars, orchVars, pipe, kind, maxRetries, wait,
                   fallbackKind, prepRes>>
    /\ LET e == ExecErr(ExecArg(cyc[i].item, cyc[i].execCalls),
                        cyc[i].execCalls)
           c == Catch(cyc[i], currentRetry, maxRetries, wait, e)
           cr1 == IF c.pc = "caught" THEN currentRetry + 1 ELSE currentRetry
       IN Continue([cyc EXCEPT ![i] = Retry(c, currentRetry, maxRetries)],
                   cr1, i)

\* the sleep of cycle i ends: the increment, the test and the next call
WakeUp(i) ==
    /\ cyc[i].pc = "sleeping"
    /\ UNCHANGED <<flowVars, orchVars, pipe, kind, maxRetries, wait,
                   fallbackKind, prepRes>>
    /\ Continue([cyc EXCEPT ![i] = EnterLoop(@, currentRetry + 1, maxRetries)],
                currentRetry + 1, i)

\* an overridden execFallback of cycle i returns a substitute
FallbackReturn(i) ==
    /\ cyc[i].pc = "awaitFallback"
    /\ fallbackKind = "override"
    /\ UNCHANGED <<flowVars, orchVars, pipe, kind, maxRetries, wait,
                   fallbackKind, prepRes>>
    /\ Continue([cyc EXCEPT ![i] = Returned(@, FallbackOut(cyc[i].item))],
                currentRetry, i)

\* execFallback of cycle i raises: Node.execFallback throws the error it was
\* given, an overridden one an error of its own
FallbackRaise(i) ==
    /\ cyc[i].pc = "awaitFallback"
    /\ UNCHANGED <<flowVars, orchVars, pipe, kind, maxRetries, wait,
                   fallbackKind, prepRes>>
    /\ Continue([cyc EXCEPT ![i] =
                    Threw(@, IF fallbackKind = "default"
                             THEN execFallback(cyc[i].item, cyc[i].fallbackArg)
                             ELSE FallbackErr(cyc[i].item))],
                currentRetry, i)

\* post returns, and run(shared) with it
PostReturn ==
    /\ npc = "post"
    /\ npc' = "done"
    /\ UNCHANGED <<flowVars, orchVars, pipe, kind, maxRetries, wait,
                   fallbackKind, prepRes, currentRetry,
                   cyc, results, postArg, postCalls, runError, doneOrder>>

\* no run is recorded
NoPair ==
    /\ observe = FALSE
    /\ obs = <<>>
    /\ prev = NoPrev

\* no graph, no Flow
NoFlow ==
    /\ successors = [o \in AllObjs |-> [l \in RegLabels |-> None]]
    /\ latest = [o \in Objs |-> [l \in RegLabels |-> None]]
    /\ replaced = [o \in Objs |-> [l \in RegLabels |-> {}]]
    /\ regCount = 0
    /\ tmpl = [o \in AllObjs |->
                 [class |-> "Node", currentRetry |-> 0, maxRetries |-> 1,
                  wait |-> 0, start |-> None]]
    /\ mode = "build"
    /\ status = "idle"
    /\ stack = <<>>
    /\ phase = "none"
    /\ visit = FreshCycle
    /\ visits = <<>>
    /\ lastHop = [from |-> None, action |-> Undefined, to |-> None]
    /\ explicit = FALSE
    /\ flowPostArg = NoVal
    /\ flowError = NoVal
    /\ postLog = <<>>
    /\ runAction = Pending
    /\ NoPair

Init == NodeInit /\ NoFlow /\ NoOrch

Next ==
    \/ Run
    \/ PrepReturn
    \/ \E i \in 1..MaxItems : ExecResolve(i)
    \/ \E i \in 1..MaxItems : ExecReject(i)
    \/ \E i \in 1..MaxItems : WakeUp(i)
    \/ \E i \in 1..MaxItems : FallbackReturn(i)
    \/ \E i \in 1..MaxItems : FallbackRaise(i)
    \/ PostReturn

Spec == Init /\ [][Next]_vars

\* ------------------------------------------------------------------ claims
Sequential == kind \in {"Node", "BatchNode"}

\* C1: in a retry cycle of a Node, or of one item of a BatchNode, with
\* maxRetries = n >= 1, exec is invoked at most n times, and execFallback is
\* invoked exactly when all n invocations of exec have raised, and then once.
C1_BoundedRetry ==
    (Sequential /\ maxRetries >= 1) =>
        \A i \in Cycles :
            /\ cyc[i].execCalls <= maxRetries
            /\ cyc[i].fails <= cyc[i].execCalls
            /\ cyc[i].fallbackCalls <= 1
            /\ (cyc[i].fallbackCalls = 1) <=> (cyc[i].fails = maxRetries)

C1_Witness ==
    /\ kind = "BatchNode"
    /\ maxRetries = 3
    /\ NCycles >= 2
    /\ cyc[2].fails = 3
    /\ cyc[2].execCalls = 3
    /\ cyc[2].fallbackCalls = 1

C3_SingleAttempt ==
    maxRetries = 1 =>
        \A i \in Cycles :
            cyc[i].fails >= 1 =>
                /\ cyc[i].execCalls = 1
                /\ cyc[i].fails = 1
                /\ cyc[i].waits = 0
                /\ cyc[i].fallbackCalls = 1
                /\ cyc[i].fallbackArg = ExecErr(ItemOf(i), 1)
                /\ cyc[i].pc \in {"awaitFallback", "returned", "threw"}
                /\ fallbackKind = "default" =>
                      /\ cyc[i].pc # "returned"
                      /\ cyc[i].pc = "threw" =>
                            /\ cyc[i].error = ExecErr(ItemOf(i), 1)
                            /\ npc = "raised"
                            /\ postCalls = 0
                            /\ Sequential => runError = ExecErr(ItemOf(i), 1)

C3_Witness ==
    /\ kind = "Node"
    /\ maxRetries = 1
    /\ fallbackKind = "default"
    /\ cyc[1].fails = 1
    /\ npc = "raised"
    /\ runError = ExecErr(ItemOf(1), 1)

\* C5: in a ParallelBatchNode with maxRetries = n >= 1, under every
\* interleaving of the items' cycles, execFallback of an item is invoked
\* only after that item's own exec has raised n times, and an item whose
\* exec has raised fewer than n times is retried: its cycle is not ended by
\* the fallback or by an error.
C5_NoLeakBetweenItems ==
    (kind = "ParallelBatchNode" /\ maxRetries >= 1) =>
        \A i \in Cycles :
            cyc[i].fails < maxRetries =>
                /\ cyc[i].fallbackCalls = 0
                /\ cyc[i].pc \notin {"awaitFallback", "threw"}

\* C10: post of a BatchNode receives one output per item, in the order of
\* the items, output i being that of item i, from exec or from a returning
\* fallback; and the cycle of item i+1 starts only when that of item i has
\* returned.
C10_BatchOrder ==
    kind = "BatchNode" =>
        /\ \A i \in Cycles :
              (i > 1 /\ cyc[i].pc # "notStarted") => cyc[i - 1].pc = "returned"
        /\ Len(results) = Cardinality({i \in Cycles : cyc[i].pc = "returned"})
        /\ postCalls = 1 =>
              /\ Len(postArg) = NCycles
              /\ \A i \in Cycles :
                    /\ postArg[i].of = ItemOf(i)
                    /\ postArg[i] = cyc[i].result
                    /\ \/ postArg[i] = ExecOut(ItemOf(i), cyc[i].fails + 1)
                       \/ /\ postArg[i] = FallbackOut(ItemOf(i))
                          /\ cyc[i].fails = maxRetries

C10_Witness ==
    /\ kind = "BatchNode"
    /\ npc = "done"
    /\ Len(postArg) = 3
    /\ cyc[1].fails = 0
    /\ cyc[2].fails = 1
    /\ postArg[2] = ExecOut(ItemOf(2), 2)
    /\ postArg[3] = FallbackOut(ItemOf(3))

Parallel == kind = "ParallelBatchNode" /\ prepRes.isArray

\* C11: when post of a ParallelBatchNode is called, it is called with one
\* output for each item, and position i holds the output of the cycle of
\* item i, whatever the order in which the cycles settled; an item whose
\* exec returned at its first call has the value of that call there.
C11_JoinInInputOrder ==
    (Parallel /\ postCalls = 1) =>
        /\ Len(postArg) = NCycles
        /\ Len(doneOrder) = NCycles
        /\ \A i \in Cycles :
               /\ postArg[i] = cyc[i].result
               /\ postArg[i].of = ItemOf(i)
               /\ cyc[i].fails = 0 => postArg[i] = ExecOut(ItemOf(i), 1)

\* Three items whose exec all returned at the first call, the third first
\* and the second last.
C11_Witness ==
    /\ Parallel
    /\ npc = "done"
    /\ doneOrder = <<3, 1, 2>>
    /\ \A i \in 1..3 : cyc[i].fails = 0
    /\ postArg = <<ExecOut(ItemOf(1), 1), ExecOut(ItemOf(2), 1),
                   ExecOut(ItemOf(3), 1)>>

\* C12: the join of a ParallelBatchNode is all or nothing: post has been
\* called exactly when the cycle of every item returned (by exec or by a
\* fallback), and then with their outputs in the order of the items; when the
\* cycle of some item raised, the run has raised the error of the first cycle
\* that raised, post was not called and no output was handed on.
C12_AllOrNothing ==
    (Parallel /\ NCycles > 0 /\ npc \notin {"idle", "prep"}) =>
        /\ postCalls = 1 <=> \A i \in Cycles : cyc[i].pc = "returned"
        /\ postCalls = 1 => postArg = [i \in Cycles |-> cyc[i].result]
        /\ npc = "raised" <=> \E i \in Cycles : cyc[i].pc = "threw"
        /\ npc = "raised" =>
               /\ postCalls = 0
               /\ postArg = <<>>
               /\ \E k \in 1..Len(doneOrder) :
                      /\ cyc[doneOrder[k]].pc = "threw"
                      /\ runError = cyc[doneOrder[k]].error
                      /\ \A j \in 1..(k - 1) : cyc[doneOrder[j]].pc = "returned"

\* Of three items the second raises at its only attempt and the default
\* fallback raises that error again; the first returned before, the third
\* after it.
C12_Witness ==
    /\ Parallel
    /\ maxRetries = 1
    /\ fallbackKind = "default"
    /\ doneOrder = <<1, 2, 3>>
    /\ cyc[1].pc = "returned"
    /\ cyc[2].pc = "threw"
    /\ cyc[2].fallbackCalls = 1
    /\ cyc[3].pc = "returned"
    /\ npc = "raised"
    /\ runError = ExecErr(ItemOf(2), 1)
    /\ postCalls = 0

\* C13: in a BatchNode with an overridden fallback every item has its own
\* attempts: while exec of an item is awaited, this.currentRetry is the
\* number of failures of that item alone, the fallback is called only after
\* maxRetries failures of that item, and once the cycle of an item returned
\* (by exec or by the fallback) the next item is processed.
C13_ItemsHaveOwnAttempts ==
    (kind = "BatchNode" /\ fallbackKind = "override") =>
        \A i \in Cycles :
            /\ cyc[i].pc = "awaitExec" =>
                   /\ currentRetry = cyc[i].fails
                   /\ cyc[i].execCalls = cyc[i].fails + 1
                   /\ cyc[i].fails < maxRetries
            /\ cyc[i].fallbackCalls > 0 => cyc[i].fails = maxRetries
            /\ (cyc[i].pc = "returned" /\ i < NCycles) =>
                   /\ cyc[i + 1].pc # "notStarted"
                   /\ cyc[i + 1].item = ItemOf(i + 1)
                   /\ cyc[i + 1].execCalls >= 1
            /\ (npc \in {"post", "done"}) => cyc[i].pc = "returned"

\* The first item used up three attempts and its fallback returned; the
\* second item then failed twice and returned at its third attempt; the
\* third item was processed too.
C13_Witness ==
    /\ kind = "BatchNode"
    /\ fallbackKind = "override"
    /\ maxRetries = 3
    /\ npc = "done"
    /\ cyc[1].fails = 3
    /\ cyc[1].result = FallbackOut(ItemOf(1))
    /\ cyc[2].fails = 2
    /\ cyc[2].result = ExecOut(ItemOf(2), 3)
    /\ cyc[3].pc = "returned"

\* C14: in a BatchNode, when the cycle of item i raised (its fallback, the
\* default or an overridden one, raised), the run has raised that error, exec
\* was not called for any later item, post was not called, and the outputs
\* of the items before i were handed to nobody.
C14_BatchFailsAtOnce ==
    kind = "BatchNode" =>
        /\ npc = "raised" <=> \E i \in Cycles : cyc[i].pc = "threw"
        /\ \A i \in Cycles :
               cyc[i].pc = "threw" =>
                   /\ npc = "raised"
                   /\ runError = cyc[i].error
                   /\ postCalls = 0
                   /\ postArg = <<>>
                   /\ Len(results) = i - 1
                   /\ \A j \in Cycles : j < i => cyc[j].pc = "returned"
                   /\ \A j \in Cycles : j > i => cyc[j] = FreshCycle

\* The first of three items returned, the fallback of the second raised.
C14_Witness ==
    /\ kind = "BatchNode"
    /\ NCycles = 3
    /\ results = <<ExecOut(ItemOf(1), 1)>>
    /\ cyc[2].pc = "threw"
    /\ cyc[2].fallbackCalls = 1
    /\ cyc[3].execCalls = 0
    /\ npc = "raised"

C28_NoFallThrough ==
    maxRetries >= 1 =>
        \A i \in Cycles :
            /\ cyc[i].error # LoopEndError
            /\ Ended(cyc[i]) =>
                  \/ cyc[i].fallbackCalls = 1
                  \/ /\ cyc[i].pc = "returned"
                     /\ cyc[i].result = ExecOut(ItemOf(i), cyc[i].execCalls)

\* the same for the Steps that run one cycle at a time
C28_SequentialNoFallThrough == Sequential => C28_NoFallThrough

\* C31: every call of exec in a cycle, and execFallback, work on the same
\* prepRes: what prep returned for a Node, item i for cycle i of a batch
\* Step, so that what the cycle returns or raises comes from that input; the
\* error execFallback is given is the one the last call of exec raised, in
\* a Node or BatchNode the maxRetries-th, and Node.execFallback raises this
\* error, not that of an earlier attempt.
C31_SameInputLastError ==
    maxRetries >= 1 =>
        \A i \in Cycles :
            /\ cyc[i].pc # "notStarted" => cyc[i].item = ItemOf(i)
            /\ cyc[i].pc = "returned" => cyc[i].result.of = ItemOf(i)
            /\ cyc[i].fallbackCalls = 1 =>
                  /\ cyc[i].fallbackArg =
                        ExecErr(ItemOf(i), cyc[i].execCalls)
                  /\ Sequential =>
                        cyc[i].fallbackArg = ExecErr(ItemOf(i), maxRetries)
            /\ (cyc[i].pc = "threw" /\ cyc[i].fallbackCalls = 1) =>
                  IF fallbackKind = "default"
                  THEN cyc[i].error = ExecErr(ItemOf(i), cyc[i].execCalls)
                  ELSE cyc[i].error = FallbackErr(ItemOf(i))

\* The second item of a BatchNode with maxRetries = 3 failed three times and
\* Node.execFallback raised the error of its third attempt, which run
\* raises.
C31_Witness ==
    /\ kind = "BatchNode"
    /\ maxRetries = 3
    /\ fallbackKind = "default"
    /\ NCycles >= 2
    /\ cyc[2].pc = "threw"
    /\ cyc[2].fallbackArg = ExecErr(ItemOf(2), 3)
    /\ runError = ExecErr(ItemOf(2), 3)


\* C39: a Step constructed with maxRetries <= 0 never calls exec and never
\* calls execFallback: the loop of Node._exec is not entered, each cycle that
\* starts raises the error after the loop, run raises it, and post is not
\* called (a batch Step whose prep gave no item has no cycle and is not
\* meant).
C39_NoAttemptAllowed ==
    (maxRetries <= 0 /\ NCycles >= 1) =>
        /\ \A i \in Cycles :
              /\ cyc[i].execCalls = 0
              /\ cyc[i].fallbackCalls = 0
              /\ cyc[i].waits = 0
              /\ cyc[i].pc \in {"notStarted", "threw"}
              /\ cyc[i].pc = "threw" => cyc[i].error = LoopEndError
        /\ postCalls = 0
        /\ npc \in {"idle", "prep", "raised"}
        /\ npc = "raised" =>
              /\ runError = LoopEndError
              /\ cyc[1].pc = "threw"

\* A Node with maxRetries = 0 was run and its prep returned: run has raised
\* the error after the loop without any call of exec.
C39_Witness ==
    /\ kind = "Node"
    /\ maxRetries = 0
    /\ npc = "raised"
    /\ runError = LoopEndError
    /\ cyc[1].execCalls = 0
    /\ postCalls = 0

\* The first cycle, in the order in which the cycles ended, that raised.
FirstThrown ==
    doneOrder[CHOOSE k \in 1..Len(doneOrder) :
                 /\ cyc[doneOrder[k]].pc = "threw"
                 /\ \A l \in 1..(k - 1) : cyc[doneOrder[l]].pc # "threw"]

\* C33: a ParallelBatchNode cancels nothing: once the cycle of one item has
\* raised and run has raised its error, the cycle of every other item goes
\* on (a pending exec can still return or raise, a sleeping cycle wakes up
\* and calls exec again, a pending execFallback still ends, raising with
\* Node.execFallback and returning or raising when overridden),
\* while the outcome of run stays the error of the first cycle that raised
\* and post is never called, so no output of these cycles reaches post.
C33_NoCancellation ==
    (Parallel /\ maxRetries >= 1 /\ npc = "raised") =>
        /\ postCalls = 0
        /\ postArg = <<>>
        /\ runError = cyc[FirstThrown].error
        /\ \A i \in Cycles :
              /\ cyc[i].pc = "awaitExec" =>
                    ENABLED ExecResolve(i) /\ ENABLED ExecReject(i)
              /\ cyc[i].pc = "sleeping" => ENABLED WakeUp(i)
              /\ cyc[i].pc = "awaitFallback" =>
                    /\ ENABLED FallbackRaise(i)
                    /\ fallbackKind = "override" => ENABLED FallbackReturn(i)

\* The cycle of the first of two items raised and run raised its error;
\* after that the cycle of the second item failed its last attempt, called
\* execFallback and returned its value, which no call of post received.
C33_Witness ==
    /\ Parallel
    /\ npc = "raised"
    /\ NCycles = 2
    /\ doneOrder = <<1, 2>>
    /\ cyc[1].pc = "threw"
    /\ runError = cyc[1].error
    /\ cyc[2].pc = "returned"
    /\ cyc[2].result = FallbackOut(ItemOf(2))
    /\ postCalls = 0

\* ------------------------------------------------- the graph and the Flow
\* maxRetries and wait of the Steps createYouTubeProcessorFlow constructs
PipelineRetries == 2
PipelineWait == 10

\* what prep of a Step of the graph returns
PrepVal == 1

\* a registration that keeps the edge already there
onKeepFirst(succ, action, node) ==
    IF succ[action] # None THEN succ ELSE [succ EXCEPT ![action] = node]

\* BaseNode.on(action, node): this._successors.set(action, node)
on(succ, action, node) == [succ EXCEPT ![action] = node]

\* BaseNode.next(node): this.on("default", node)
next(succ, node) == on(succ, "default", node)

\* this._successors.get(key)
MapGet(succ, key) == IF key \in DOMAIN succ THEN succ[key] ELSE None

\* a lookup that follows the default edge when the action has none
getNextNodeFallsBack(succ, action) ==
    LET nextAction == IF action \in {Undefined, ""} THEN "default" ELSE action
    IN IF MapGet(succ, nextAction) # None
       THEN MapGet(succ, nextAction)
       ELSE MapGet(succ, "default")

\* a lookup that takes no action for the default label
getNextNodeNoDefault(succ, action) == MapGet(succ, action)

\* a lookup that never ends the traversal at a Step that has successors
getNextNodeAnyEdge(succ, action) ==
    LET nextAction == IF action \in {Undefined, ""} THEN "default" ELSE action
    IN IF MapGet(succ, nextAction) # None
       THEN MapGet(succ, nextAction)
       ELSE IF \E l \in DOMAIN succ : succ[l] # None
       THEN succ[CHOOSE l \in DOMAIN succ : succ[l] # None]
       ELSE None

\* BaseNode.getNextNode(action = "default"): action || "default", then the
\* successor under it, or nothing
getNextNode(succ, action) ==
    LET nextAction == IF action \in {Undefined, ""} THEN "default" ELSE action
    IN MapGet(succ, nextAction)

\* The object run(shared) is called on: the object itself, not a copy.
Self(o) ==
    [id |-> o, copy |-> FALSE, class |-> tmpl[o].class,
     successors |-> successors[o], currentRetry |-> tmpl[o].currentRetry,
     maxRetries |-> tmpl[o].maxRetries, wait |-> tmpl[o].wait,
     start |-> tmpl[o].start]

\* BaseNode.clone(): a new object of the same class with every own property
\* copied, _successors into a new Map
clone(o) == [Self(o) EXCEPT !.copy = TRUE]

Top == stack[Len(stack)]

\* the stack with this.currentRetry of the innermost object set to cr
SetRetry(cr) == [stack EXCEPT ![Len(stack)].currentRetry = cr]

\* the objects' fields after the innermost object set its currentRetry to
\* cr: those of a run-scoped copy are not the fields of the object copied
TmplAfter(cr) ==
    IF Top.copy THEN tmpl ELSE [tmpl EXCEPT ![Top.id].currentRetry = cr]

\* no Step is run outside the graph
NoNode ==
    /\ kind = "Node"
    /\ maxRetries = 1
    /\ wait = 0
    /\ fallbackKind = "default"
    /\ prepRes = [isArray |-> FALSE, items |-> ItemsOf(1)]
    /\ currentRetry = 0
    /\ npc = "idle"
    /\ cyc = [i \in 1..MaxItems |-> FreshCycle]
    /\ results = <<>>
    /\ postArg = <<>>
    /\ postCalls = 0
    /\ runError = NoVal
    /\ doneOrder = <<>>

\* The objects as constructed: A, B and C are new Node(n, w), or C is a
\* new Flow(sc); F is a new Flow(sf).
Constructed(n, w, sf, sc) ==
    [o \in AllObjs |->
        IF o = "F" \/ (o = "C" /\ sc # None)
        THEN [class |-> "Flow", currentRetry |-> 0, maxRetries |-> 0,
              wait |-> 0, start |-> IF o = "F" THEN sf ELSE sc]
        ELSE [class |-> "Node", currentRetry |-> 0, maxRetries |-> n,
              wait |-> w, start |-> None]]

\* nothing is run yet
NoRun ==
    /\ mode = "build"
    /\ status = "idle"
    /\ stack = <<>>
    /\ phase = "none"
    /\ visit = FreshCycle
    /\ visits = <<>>
    /\ lastHop = [from |-> None, action |-> Undefined, to |-> None]
    /\ explicit = FALSE
    /\ flowPostArg = NoVal
    /\ flowError = NoVal
    /\ postLog = <<>>
    /\ runAction = Pending

\* Before any registration: the Steps are constructed as those of
\* createYouTubeProcessorFlow, F starts at A, and C is a Step or a Flow that
\* starts at B.
FlowInit ==
    /\ NoNode
    /\ successors = [o \in AllObjs |-> [l \in RegLabels |-> None]]
    /\ latest = [o \in Objs |-> [l \in RegLabels |-> None]]
    /\ replaced = [o \in Objs |-> [l \in RegLabels |-> {}]]
    /\ regCount = 0
    /\ \E sc \in {None, "B"} :
          tmpl = Constructed(PipelineRetries, PipelineWait, "A", sc)
    /\ NoRun
    /\ NoPair
    /\ NoOrch

\* src.on(label, dst), or src.next(dst) for the default label
Register(src, label, dst) ==
    /\ mode = "build"
    /\ regCount < MaxReg
    /\ regCount' = regCount + 1
    /\ successors' = [successors EXCEPT ![src] =
                         IF label = "default" THEN next(@, dst)
                         ELSE on(@, label, dst)]
    /\ latest' = [latest EXCEPT ![src][label] = dst]
    /\ replaced' = [replaced EXCEPT ![src][label] =
                       (@ \cup ({latest[src][label]} \ {None})) \ {dst}]
    /\ UNCHANGED <<nodeVars, pipe, orchVars, tmpl, mode, status, stack, phase, visit, visits,
                   lastHop, explicit, flowPostArg, flowError, histVars,
                   pairVars>>

\* run(shared) raises when the object has successors.
RunThrowsOnSuccessors(succ) == \E l \in RegLabels : succ[l] # None

\* BaseNode.run: if (this._successors.size > 0) console.warn(...): a warning
\* and no throw, then return await this._run(shared)
RunThrows(succ) == FALSE

SuccessorsError == [of |-> 0, attempt |-> 0, via |-> "run"]

\* o.run(shared) is called: nothing is known of the run before.  BaseNode.run
\* calls _run, which calls prep.
NewRun(o) ==
    /\ status # "running"
    /\ regCount' = 0
    /\ visit' = FreshCycle
    /\ visits' = <<>>
    /\ lastHop' = [from |-> None, action |-> Undefined, to |-> None]
    /\ explicit' = FALSE
    /\ flowPostArg' = NoVal
    /\ postLog' = <<>>
    /\ runAction' = Pending
    /\ obs' = <<>>
    /\ prev' = IF observe THEN [status |-> status, obs |-> obs] ELSE prev
    /\ UNCHANGED observe
    /\ stack' = <<Self(o)>>
    /\ IF RunThrows(successors[o])
       THEN /\ status' = "raised"
            /\ flowError' = SuccessorsError
            /\ phase' = "none"
       ELSE /\ status' = "running"
            /\ flowError' = NoVal
            /\ phase' = "prep"
    /\ UNCHANGED <<nodeVars, pipe, orchVars, successors, latest, replaced, tmpl>>

\* x.run(shared) on a Node of the graph
RunDirect(x) ==
    /\ tmpl[x].class = "Node"
    /\ NewRun(x)
    /\ mode' = "direct"

\* F.run(shared): BaseNode.run, Flow._run, the call of F.prep
RunFlow ==
    /\ NewRun("F")
    /\ mode' = "flow"

\* The loop of _orchestrate catches what the run of a Step raises.
FlowSwallows(err) ==
    /\ status' = status
    /\ flowError' = flowError

\* the run raises err: nothing between the Step and the caller catches
FlowRaise(err) ==
    /\ status' = "raised"
    /\ flowError' = err

\* Flow._orchestrate runs the run-scoped copy of o: setParams, then _run,
\* which calls prep; post of the copy has not been called
Visit(stk, o) ==
    /\ stack' = Append(stk, clone(o))
    /\ visits' = Append(visits, o)
    /\ phase' = "prep"
    /\ visit' = FreshCycle
    /\ flowPostArg' = NoVal

\* prep of a Flow returned: Flow._run calls _orchestrate, which copies
\* this.start and runs the copy
OrchestrateStart ==
    /\ status = "running"
    /\ phase = "prep"
    /\ Top.class = "Flow"
    /\ Len(visits) < MaxVisits
    /\ Visit(stack, Top.start)
    /\ UNCHANGED <<nodeVars, pipe, orchVars, successors, latest, replaced, regCount, tmpl,
                   mode, status, lastHop, explicit, flowError, histVars,
                   pairVars>>

\* prep of a Node returned: _exec starts and runs up to its call of exec
FlowPrepReturn ==
    /\ status = "running"
    /\ phase = "prep"
    /\ Top.class = "Node"
    /\ LET cr1 == ForInit(Top.currentRetry)
           v == EnterLoop([FreshCycle EXCEPT !.item = PrepVal], cr1,
                          Top.maxRetries)
       IN /\ visit' = v
          /\ stack' = SetRetry(cr1)
          /\ tmpl' = TmplAfter(cr1)
          /\ IF v.pc = "threw"
             THEN FlowRaise(v.error) /\ UNCHANGED phase
             ELSE phase' = "exec" /\ UNCHANGED <<status, flowError>>
    /\ UNCHANGED <<nodeVars, pipe, orchVars, successors, latest, replaced, regCount, mode,
                   visits, lastHop, explicit, flowPostArg, histVars, pairVars>>

\* _run goes on to post without waiting for _exec to settle.
ResolvedOrPending(v) == v.pc # "threw"

\* BaseNode._run: const e = await this._exec(p): _run goes on when the
\* promise of _exec is resolved
Resolved(v) == v.pc = "returned"

\* post is told when the output comes from the fallback.
ExecResMarked(v) ==
    IF v.fallbackCalls > 0 THEN [v.result EXCEPT !.via = "recovered"]
    ELSE v.result

\* BaseNode._run: const e = await this._exec(p), and Node._exec returns what
\* exec or execFallback returned: return await this.exec(prepRes), return
\* await this.execFallback(prepRes, e)
ExecRes(v) == v.result

\* the record of a Step whose cycle returned as v
Observed(o, v) ==
    [id |-> o, val |-> v.result, fails |-> v.fails,
     recovered |-> v.fallbackCalls > 0, arg |-> ExecRes(v), action |-> Pending]

\* what follows when the cycle of the visit became v with currentRetry cr1:
\* post is called with its result, or its error ends the run
FlowContinue(v, cr1) ==
    /\ visit' = v
    /\ stack' = SetRetry(cr1)
    /\ tmpl' = TmplAfter(cr1)
    /\ IF Resolved(v)
       THEN /\ phase' = "post"
            /\ flowPostArg' = ExecRes(v)
            /\ postLog' = Append(postLog, Top.id)
            /\ obs' = IF observe THEN Append(obs, Observed(Top.id, v)) ELSE obs
            /\ UNCHANGED <<status, flowError>>
       ELSE IF v.pc = "threw"
       THEN FlowRaise(v.error) /\ UNCHANGED <<phase, flowPostArg, postLog, obs>>
       ELSE UNCHANGED <<phase, flowPostArg, status, flowError, postLog, obs>>
    /\ UNCHANGED <<nodeVars, pipe, orchVars, successors, latest, replaced, regCount, mode,
                   visits, lastHop, explicit, runAction, observe, prev>>

\* exec of the visited Node returns
FlowExecResolve ==
    /\ status = "running"
    /\ phase = "exec"
    /\ visit.pc = "awaitExec"
    /\ FlowContinue(Returned(visit, ExecOut(visit.item, visit.execCalls)),
                    Top.currentRetry)

\* the sleep of the visited Node ends: the increment, the test and the next
\* call of exec
FlowWakeUp ==
    /\ status = "running"
    /\ phase = "exec"
    /\ visit.pc = "sleeping"
    /\ FlowContinue(EnterLoop(visit, Top.currentRetry + 1, Top.maxRetries),
                    Top.currentRetry + 1)

\* exec of the visited Node raises: the catch block and, with no sleep, the
\* next iteration
FlowExecReject ==
    /\ status = "running"
    /\ phase = "exec"
    /\ visit.pc = "awaitExec"
    /\ LET e == ExecErr(visit.item, visit.execCalls)
           c == Catch(visit, Top.currentRetry, Top.maxRetries, Top.wait, e)
       IN FlowContinue(Retry(c, Top.currentRetry, Top.maxRetries),
                       IF c.pc = "caught" THEN Top.currentRetry + 1
                       ELSE Top.currentRetry)

\* an overridden execFallback of the visited Node returns the substitute r
FlowFallbackReturn(r) ==
    /\ status = "running"
    /\ phase = "exec"
    /\ visit.pc = "awaitFallback"
    /\ FlowContinue(Returned(visit, r), Top.currentRetry)

\* execFallback of the visited Node raises: Node.execFallback the error it
\* was given
FlowFallbackRaise ==
    /\ status = "running"
    /\ phase = "exec"
    /\ visit.pc = "awaitFallback"
    /\ FlowContinue(Threw(visit, execFallback(visit.item, visit.fallbackArg)),
                    Top.currentRetry)

\* The loop of _orchestrate runs one object only.
LoopEndsAfterFirst(nextNode) == TRUE

\* while (current): the loop of _orchestrate ends when getNextNode returned
\* no object
LoopEnds(nextNode) == nextNode = None

\* post of the innermost object returns the action a.  The object
\* run(shared) was called on returns it to the caller.  A run-scoped copy
\* returns it to the loop of the _orchestrate that runs it: getNextNode on
\* the copy, then either the copy of the successor is run, or the loop and
\* _orchestrate end and Flow._run calls post of its Flow.
FlowPostReturn(a) ==
    /\ status = "running"
    /\ phase = "post"
    /\ explicit' = (explicit \/ a # Undefined)
    /\ obs' = IF observe /\ Top.class = "Node"
              THEN [obs EXCEPT ![Len(obs)].action = a] ELSE obs
    /\ UNCHANGED <<observe, prev>>
    /\ IF Len(stack) = 1
       THEN /\ status' = "done"
            /\ runAction' = a
            /\ UNCHANGED <<stack, phase, visit, visits, lastHop, flowPostArg,
                           postLog>>
       ELSE LET nextNode == getNextNode(Top.successors, a)
                outer == SubSeq(stack, 1, Len(stack) - 1)
            IN /\ lastHop' = [from |-> Top.id, action |-> a, to |-> nextNode]
               /\ UNCHANGED <<status, runAction>>
               /\ IF LoopEnds(nextNode)
                  THEN /\ stack' = outer
                       /\ phase' = "post"
                       /\ flowPostArg' = NoVal
                       /\ postLog' = Append(postLog, outer[Len(outer)].id)
                       /\ UNCHANGED <<visit, visits>>
                  ELSE /\ Len(visits) < MaxVisits
                       /\ Visit(outer, nextNode)
                       /\ UNCHANGED postLog
    /\ UNCHANGED <<nodeVars, pipe, orchVars, successors, latest, replaced, regCount, tmpl,
                   mode, flowError>>

FlowNext ==
    \/ \E src, dst \in Objs, label \in RegLabels : Register(src, label, dst)
    \/ RunFlow
    \/ OrchestrateStart
    \/ FlowPrepReturn
    \/ FlowExecResolve
    \/ FlowExecReject
    \/ FlowWakeUp
    \/ FlowFallbackReturn(FallbackOut(PrepVal))
    \/ FlowFallbackRaise
    \/ \E a \in Actions : FlowPostReturn(a)

SpecFlow == FlowInit /\ [][FlowNext]_vars

\* A graph of default edges, A.next(a) and B.next(b), over Steps new Node(n)
\* or new Node(n, PipelineWait); runs of its Steps and of F follow each other.
ReuseInit ==
    /\ NoNode
    /\ \E a, b \in Objs :
          /\ successors = [o \in AllObjs |->
                IF o = "A" THEN next([l \in RegLabels |-> None], a)
                ELSE IF o = "B" THEN next([l \in RegLabels |-> None], b)
                ELSE [l \in RegLabels |-> None]]
          /\ latest = [o \in Objs |-> successors[o]]
    /\ replaced = [o \in Objs |-> [l \in RegLabels |-> {}]]
    /\ regCount = 0
    /\ \E n \in 1..MaxFlowRetries, w \in {0, PipelineWait},
          sf \in {"A", "C"}, sc \in {None, "B"} :
          tmpl = Constructed(n, w, sf, sc)
    /\ NoRun
    /\ NoPair
    /\ NoOrch

ReuseNext ==
    \/ \E x \in Objs : RunDirect(x)
    \/ RunFlow
    \/ OrchestrateStart
    \/ FlowPrepReturn
    \/ FlowExecResolve
    \/ FlowExecReject
    \/ FlowWakeUp
    \/ FlowFallbackReturn(FallbackOut(PrepVal))
    \/ FlowFallbackRaise
    \/ \E a \in Actions : FlowPostReturn(a)

SpecReuse == ReuseInit /\ [][ReuseNext]_vars

\* ------------------------------------------------- claims on the graph
\* the label a returned action is looked up under
LabelOf(a) == IF a \in {Undefined, ""} THEN "default" ELSE a

\* the object last registered on x under the label of the action a, if any
Registered(x, a) ==
    IF LabelOf(a) \in RegLabels THEN latest[x][LabelOf(a)] ELSE None

\* post of the run-scoped copy that _orchestrate awaits returns a
Hop(a) == FlowPostReturn(a) /\ Len(stack) > 1

\* the traversal of the innermost Flow ends: its loop is left with nothing
\* more visited, and post of the Flow is called
TraversalEnds ==
    /\ stack' = SubSeq(stack, 1, Len(stack) - 1)
    /\ visits' = visits
    /\ phase' = "post"
    /\ status' = "running"

\* the traversal goes on with a copy of the object o, and with nothing else
TraversalFollows(o) ==
    /\ Len(stack') = Len(stack)
    /\ stack'[Len(stack')] = clone(o)
    /\ visits' = Append(visits, o)
    /\ phase' = "prep"

\* C4: every visit of a Step, by a run of F, by a Flow nested in it, again on
\* a cycle of the graph, or by run(shared) on the Step itself, counts its
\* attempts from zero whatever currentRetry an earlier run left on the Step:
\* while exec is awaited this.currentRetry is the number of failures of this
\* visit, and the visit is ended by the fallback or an error only after
\* maxRetries failures of its own, maxRetries being that of the Step.
C4_FreshAttemptState ==
    (status # "idle" /\ Len(stack) > 0 /\ Top.class = "Node"
        /\ phase \in {"exec", "post"}) =>
        /\ Top.maxRetries = tmpl[Top.id].maxRetries
        /\ visit.pc = "awaitExec" =>
              /\ Top.currentRetry = visit.fails
              /\ visit.execCalls = visit.fails + 1
              /\ visit.fails < Top.maxRetries
        /\ visit.pc = "sleeping" => Top.currentRetry = visit.fails - 1
        /\ (visit.fallbackCalls > 0 \/ visit.pc = "threw") =>
              visit.fails = Top.maxRetries
        /\ (visit.pc = "returned" /\ visit.fallbackCalls = 0) =>
              visit.result = ExecOut(PrepVal, visit.fails + 1)

\* a copy of A starts its first attempt in a run of F, at the second visit of
\* A in that run, after a run on A itself ended on its second attempt
C4_Witness ==
    /\ mode = "flow"
    /\ tmpl["A"].currentRetry = 1
    /\ visits = <<"A", "A">>
    /\ Top.id = "A"
    /\ Top.copy
    /\ Top.currentRetry = 0
    /\ visit.pc = "awaitExec"
    /\ visit.execCalls = 1

\* the chain A -default-> B -default-> C of Nodes, and no other edge
IsChain ==
    /\ successors["A"] = [l \in RegLabels |-> IF l = "default" THEN "B" ELSE None]
    /\ successors["B"] = [l \in RegLabels |-> IF l = "default" THEN "C" ELSE None]
    /\ successors["C"] = [l \in RegLabels |-> None]
    /\ tmpl["C"].class = "Node"

IsPrefix(p, q) == Len(p) <= Len(q) /\ p = SubSeq(q, 1, Len(p))

\* C6: on the chain A -default-> B -default-> C, when no post returns an
\* action, a run of F, which starts at A, visits A, then B, then C, each
\* once, and ends after C: it has returned only if it visited all three.
C6_ChainOrder ==
    (mode = "flow" /\ IsChain /\ ~explicit) =>
        /\ IsPrefix(visits, <<"A", "B", "C">>)
        /\ status = "done" => visits = <<"A", "B", "C">>
        /\ lastHop.from = "C" => (lastHop.to = None /\ Len(stack) = 1)
        /\ Len(stack) = 1 =>
              (visits = <<>> /\ phase = "prep") \/ visits = <<"A", "B", "C">>

C6_Witness ==
    /\ mode = "flow"
    /\ IsChain
    /\ ~explicit
    /\ status = "done"
    /\ visits = <<"A", "B", "C">>
    /\ lastHop = [from |-> "C", action |-> Undefined, to |-> None]

\* C7: in every graph, cycles included, when a visited Step returns an
\* action under whose label (the default label for none) no successor is
\* registered on that Step, the traversal ends at that Step: nothing more is
\* visited and post of the Flow is called; and the traversal does not end
\* at a Step that has a successor registered under the returned label.
C7_EndsAtMissingSuccessor ==
    [][\A a \in Actions :
          Hop(a) => (Registered(Top.id, a) = None <=> TraversalEnds)]_vars

\* a run that returned ended at a Step with no successor under the label of
\* its action, after going round a cycle
C7_Witness ==
    /\ mode = "flow"
    /\ status = "done"
    /\ visits = <<"A", "B", "A">>
    /\ lastHop.from = "A"
    /\ lastHop.to = None
    /\ Registered("A", "x") = None
    /\ lastHop.action = "x"

\* C8: when post returns nothing or the empty string, the successor
\* registered under the default label is followed; when it returns a label,
\* the successor registered under that label is followed, and when none is,
\* the traversal ends, also when a default successor is registered.
C8_SuccessorLookup ==
    [][\A a \in Actions :
          Hop(a) =>
              LET want == IF a \in {Undefined, ""} THEN latest[Top.id]["default"]
                          ELSE IF a \in RegLabels THEN latest[Top.id][a]
                          ELSE None
              IN /\ lastHop' = [from |-> Top.id, action |-> a, to |-> want]
                 /\ IF want = None THEN TraversalEnds
                    ELSE TraversalFollows(want)]_vars

\* A returned a label with no successor while it has a default successor,
\* and the run ended there
C8_Witness ==
    /\ mode = "flow"
    /\ status = "done"
    /\ visits = <<"A">>
    /\ latest["A"]["default"] = "B"
    /\ latest["A"]["x"] = None
    /\ lastHop = [from |-> "A", action |-> "x", to |-> None]

\* C9: a registration under a label that has a successor replaces it: the
\* successor map holds the target registered last and none registered before
\* it, and a traversal that returns the label goes to the target registered
\* last.
C9_LatestEdgeWins ==
    /\ \A x \in Objs, l \in RegLabels :
          /\ successors[x][l] = latest[x][l]
          /\ successors[x][l] \notin replaced[x][l]
    /\ lastHop.from # None =>
          /\ lastHop.to = Registered(lastHop.from, lastHop.action)
          /\ LabelOf(lastHop.action) \in RegLabels =>
                lastHop.to \notin replaced[lastHop.from][LabelOf(lastHop.action)]

\* A.next(B), then A.next(C): the run goes from A to C
C9_Witness ==
    /\ replaced["A"]["default"] = {"B"}
    /\ latest["A"]["default"] = "C"
    /\ visits = <<"A", "C">>
    /\ lastHop = [from |-> "A", action |-> Undefined, to |-> "C"]

\* the Steps among the objects visited, and among those whose post was called
IsStep(o) == tmpl[o].class = "Node"
StepVisits == SelectSeq(visits, IsStep)
StepPosts == SelectSeq(postLog, IsStep)

\* C15: in a run of F, when the cycle of a visited Step raised, which the
\* default fallback does with the error of the last attempt once the
\* attempts are used up, the run of F has raised that error: post of the
\* failing Step was not called, post of F was not called, the failing Step
\* is the last object visited, and nothing more happens in the run.
C15_ErrorEndsRun ==
    /\ [](((mode = "flow" /\ visit.pc = "threw") \/ status = "raised") =>
             /\ status = "raised"
             /\ Len(stack) > 1
             /\ Top.class = "Node"
             /\ visit.fails = Top.maxRetries
             /\ visit.fallbackCalls = 1
             /\ visit.error = ExecErr(PrepVal, Top.maxRetries)
             /\ flowError = visit.error
             /\ visits[Len(visits)] = Top.id
             /\ StepPosts = SubSeq(StepVisits, 1, Len(StepVisits) - 1)
             /\ \A k \in 1..Len(postLog) : postLog[k] # "F"
             /\ runAction = Pending)
    /\ [][status = "raised" => (status' = "running" /\ visits' = <<>>)]_vars

\* A was visited and its post called; the two attempts of B failed and the
\* run raised the error of the second.
C15_Witness ==
    /\ mode = "flow"
    /\ status = "raised"
    /\ visits = <<"A", "B">>
    /\ postLog = <<"A">>
    /\ Top.id = "B"
    /\ visit.execCalls = 2
    /\ flowError = ExecErr(PrepVal, 2)

\* C17: run(shared) on a Step runs that Step and nothing else: no object is
\* visited and no successor is looked up, with or without successors
\* registered on the Step; prep, the one retry cycle and post follow each
\* other, post being called once, and only after the cycle returned; the
\* call raises only what the cycle raised; and when post returns an action
\* the call returns that action.
C17_DirectRunIsOneStep ==
    /\ [](mode = "direct" =>
             /\ Len(stack) = 1
             /\ ~Top.copy
             /\ Top.class = "Node"
             /\ visits = <<>>
             /\ lastHop.from = None
             /\ postLog = IF phase = "post" THEN <<Top.id>> ELSE <<>>
             /\ phase = "prep" => visit = FreshCycle
             /\ phase = "post" => visit.pc = "returned"
             /\ status = "raised" =>
                    (visit.pc = "threw" /\ flowError = visit.error)
             /\ status = "done" <=> runAction # Pending
             /\ status = "done" => phase = "post")
    /\ [][\A a \in Actions :
             (mode = "direct" /\ FlowPostReturn(a)) =>
                 /\ status' = "done"
                 /\ runAction' = a
                 /\ stack' = stack
                 /\ visits' = <<>>]_vars

\* A.run(shared) returned the action "default" of its post, B being
\* registered as the default successor of A and never run.
C17_Witness ==
    /\ mode = "direct"
    /\ Top.id = "A"
    /\ successors["A"]["default"] = "B"
    /\ status = "done"
    /\ runAction = "default"
    /\ postLog = <<"A">>
    /\ visits = <<>>

\* C19: in a run of F the phases of a visit follow each other: while prep is
\* awaited no attempt of exec has been made; post is called in the step in
\* which the cycle returns, so that during post no exec, fallback or sleep
\* of the Step is pending; the next object is visited only in the step in
\* which a post returns, or prep of the Flow that starts at it; and post has
\* been called once for every visited Step but the one whose prep or cycle
\* is under way or raised.
C19_PhaseOrder ==
    /\ []((mode = "flow" /\ status # "idle") =>
             /\ phase = "prep" => visit = FreshCycle
             /\ phase = "exec" =>
                    (Top.class = "Node" /\ visit.pc # "notStarted")
             /\ (phase = "post" /\ Top.class = "Node") => visit.pc = "returned"
             /\ StepPosts = IF Top.class = "Node" /\ phase \in {"prep", "exec"}
                            THEN SubSeq(StepVisits, 1, Len(StepVisits) - 1)
                            ELSE StepVisits)
    /\ [][Len(visits') > Len(visits) =>
             (phase = "post" \/ (phase = "prep" /\ Top.class = "Flow"))]_vars
    /\ [][(mode = "flow" /\ Len(postLog') > Len(postLog)) =>
             \/ phase = "exec" /\ phase' = "post" /\ visit'.pc = "returned"
             \/ phase = "post" /\ phase' = "post"
                   /\ Len(stack') < Len(stack)]_vars

\* The second visit of the run: the first attempt of B failed, the second
\* returned and post of B is awaited; post of A was called once, before.
C19_Witness ==
    /\ mode = "flow"
    /\ status = "running"
    /\ visits = <<"A", "B">>
    /\ phase = "post"
    /\ visit.fails = 1
    /\ visit.pc = "returned"
    /\ postLog = <<"A", "B">>

\* ------------------------------------------------- two runs of one Flow
\* what an overridden execFallback may return: a value of its own, or the
\* value exec returns at its first call
Substitutes == {FallbackOut(PrepVal), ExecOut(PrepVal, 1)}

\* the actions post returns in the runs that are compared
PairActions == {Undefined, "default", "x"}

\* F starts at A, A.next(B), A.on("x", C); A, B and C are new Node(n) with
\* an overridden execFallback; the runs of F are recorded.
PairInit ==
    /\ NoNode
    /\ successors = [o \in AllObjs |->
          IF o = "A" THEN on(next([l \in RegLabels |-> None], "B"), "x", "C")
          ELSE [l \in RegLabels |-> None]]
    /\ latest = [o \in Objs |-> successors[o]]
    /\ replaced = [o \in Objs |-> [l \in RegLabels |-> {}]]
    /\ regCount = 0
    /\ \E n \in 1..MaxFlowRetries : tmpl = Constructed(n, 0, "A", None)
    /\ NoRun
    /\ observe = TRUE
    /\ obs = <<>>
    /\ prev = NoPrev
    /\ NoOrch

PairNext ==
    \/ RunFlow
    \/ OrchestrateStart
    \/ FlowPrepReturn
    \/ FlowExecResolve
    \/ FlowExecReject
    \/ \E r \in Substitutes : FlowFallbackReturn(r)
    \/ FlowFallbackRaise
    \/ \E a \in PairActions : FlowPostReturn(a)

SpecPair == PairInit /\ [][PairNext]_vars

\* the steps both the run before and this run have recorded
Common == 1..(IF Len(obs) < Len(prev.obs) THEN Len(obs) ELSE Len(prev.obs))

\* up to the k-th Step the two runs got the same values from the cycles, by
\* exec or by the fallback after any number of failures, and before it the
\* same actions from post
SameInputs(k) ==
    /\ \A j \in 1..k : obs[j].val = prev.obs[j].val
    /\ \A j \in 1..(k - 1) : obs[j].action = prev.obs[j].action

\* C16: two runs of F in which the cycles of the Steps return the same
\* values, in one run by exec at once and in the other by the fallback after
\* the attempts are used up, are the same to the Flow: post of each Step
\* gets the same output, the same Steps are visited in the same order, and
\* when the posts return the same actions both runs end after the same
\* number of Steps.
C16_FallbackIndistinguishable ==
    /\ \A k \in Common :
          SameInputs(k) =>
              /\ obs[k].id = prev.obs[k].id
              /\ obs[k].arg = prev.obs[k].arg
              /\ obs[k].arg = obs[k].val
    /\ (status = "done" /\ prev.status = "done"
          /\ \A k \in Common :
                SameInputs(k) /\ obs[k].action = prev.obs[k].action) =>
          Len(obs) = Len(prev.obs)

\* In the run before exec of A and of B returned at the first call; in this
\* run every attempt of A failed and its fallback returned the same value,
\* and the posts returned the same actions: both runs went from A to C
\* under the label x and ended.
C16_Witness ==
    /\ status = "done"
    /\ prev.status = "done"
    /\ Len(obs) = 2
    /\ Len(prev.obs) = 2
    /\ \A k \in 1..2 : SameInputs(k) /\ obs[k].action = prev.obs[k].action
    /\ ~prev.obs[1].recovered
    /\ prev.obs[1].fails = 0
    /\ obs[1].recovered
    /\ obs[1].fails = tmpl["A"].maxRetries
    /\ obs[1].arg = ExecOut(PrepVal, 1)
    /\ obs[1].action = "x"
    /\ visits = <<"A", "C">>

\* ------------------------------------------------- a Flow in the graph
\* F starts at the Flow C, which starts at B; B.next(A) or not, C.next(A)
\* or not; A and B are new Node(n).
NestInit ==
    /\ NoNode
    /\ \E b, c \in {None, "A"} :
          successors = [o \in AllObjs |->
              IF o = "B" /\ b # None THEN next([l \in RegLabels |-> None], b)
              ELSE IF o = "C" /\ c # None
              THEN next([l \in RegLabels |-> None], c)
              ELSE [l \in RegLabels |-> None]]
    /\ latest = [o \in Objs |-> successors[o]]
    /\ replaced = [o \in Objs |-> [l \in RegLabels |-> {}]]
    /\ regCount = 0
    /\ \E n \in 1..MaxFlowRetries : tmpl = Constructed(n, 0, "C", "B")
    /\ NoRun
    /\ NoPair
    /\ NoOrch

\* what prep / post of a Step raises
PrepError == Val(PrepVal, 0, "prepError")
PostError == Val(PrepVal, 0, "postError")

\* The try block surrounds the three phases.
InTryWholeRun(ph) == TRUE

\* The try block of Node._exec holds the call of exec and nothing else:
\* BaseNode._run calls prep before _exec and post after it
InTry(ph) == ph = "exec"

\* prep or post of the visited Node raises.  Nothing in BaseNode._run, in
\* the loop of _orchestrate or in Flow._run catches: the run raises.
StepPhaseRaise ==
    /\ status = "running"
    /\ phase \in {"prep", "post"}
    /\ Top.class = "Node"
    /\ LET err == IF phase = "prep" THEN PrepError ELSE PostError
       IN IF InTry(phase)
          THEN /\ visit' = Catch(visit, Top.currentRetry, Top.maxRetries,
                                 Top.wait, err)
               /\ UNCHANGED <<status, flowError>>
          ELSE /\ FlowRaise(err)
               /\ UNCHANGED visit
    /\ UNCHANGED <<nodeVars, pipe, orchVars, successors, latest, replaced, regCount, tmpl,
                   mode, stack, phase, visits, lastHop, explicit, flowPostArg,
                   histVars, pairVars>>

NestNext ==
    \/ RunFlow
    \/ StepPhaseRaise
    \/ OrchestrateStart
    \/ FlowPrepReturn
    \/ FlowExecResolve
    \/ FlowExecReject
    \/ FlowFallbackReturn(FallbackOut(PrepVal))
    \/ FlowFallbackRaise
    \/ \E a \in Actions : FlowPostReturn(a)

SpecNest == NestInit /\ [][NestNext]_vars

\* the Flow C is being run by the _orchestrate of F
InnerAt(k) == k <= Len(stack) /\ stack[k].id = "C"

\* C25: the Flow C nested in the graph of F is visited as one Step.  prep of
\* C is called first; then the graph of C is run from its start to the end
\* of its loop, while post of C has not been called; post of C is called
\* in the step in which that loop ends, after post of every Step visited in
\* it; and only when post of C has returned an action does the loop of F
\* go on, with the successor of C under that action.  exec is never
\* invoked on C, and C raises nothing of its own.
C25_NestedFlowIsOneVisit ==
    (mode = "flow" /\ status # "idle") =>
        /\ Top.class = "Flow" => phase \in {"prep", "post"}
        /\ status = "raised" => Top.class = "Node"
        /\ visits # <<>> => visits[1] = "C"
        /\ (InnerAt(2) /\ Len(stack) = 2 /\ phase = "prep") =>
              /\ visits = <<"C">>
              /\ postLog = <<>>
        /\ (InnerAt(2) /\ Len(stack) = 3) =>
              /\ \A k \in 1..Len(postLog) : postLog[k] # "C"
              /\ Len(visits) >= 2
              /\ visits[2] = tmpl["C"].start
        /\ (InnerAt(2) /\ Len(stack) = 2 /\ phase = "post") =>
              /\ Len(visits) >= 2
              /\ postLog = Append(SubSeq(visits, 2, Len(visits)), "C")
              /\ lastHop.from = visits[Len(visits)]
              /\ lastHop.to = None
        /\ lastHop.from = "C" =>
              /\ \E k \in 2..Len(postLog) :
                    /\ postLog[k] = "C"
                    /\ SubSeq(postLog, 1, k - 1) = SubSeq(visits, 2, k)
                    /\ lastHop.to # None =>
                          /\ Len(visits) = k + 1
                          /\ visits[k + 1] = lastHop.to
              /\ lastHop.to = getNextNode(successors["C"], lastHop.action)

\* F visited C, whose loop ran B and then A; post of C was called after
\* theirs and returned nothing, and F ended its loop as C has no successor.
C25_WitnessInnerChain ==
    /\ mode = "flow"
    /\ visits = <<"C", "B", "A">>
    /\ postLog = <<"B", "A", "C", "F">>
    /\ lastHop = [from |-> "C", action |-> Undefined, to |-> None]
    /\ status = "done"

\* post of C returned "default", and F runs the successor A of C after the
\* loop of C ran B.
C25_Witness ==
    /\ mode = "flow"
    /\ visits = <<"C", "B", "A">>
    /\ postLog = <<"B", "C">>
    /\ phase = "prep"
    /\ lastHop = [from |-> "C", action |-> "default", to |-> "A"]

\* the visits of Nodes in this run, and the calls of post of a Node
NodeVisits ==
    Cardinality({k \in 1..Len(visits) : tmpl[visits[k]].class = "Node"})
NodePosts ==
    Cardinality({k \in 1..Len(postLog) : tmpl[postLog[k]].class = "Node"})

\* C32: the retry loop is for exec only.  While prep of a Step runs, and
\* when it has raised, its cycle has not begun: exec and execFallback were
\* not called.  What prep or post raises is raised by the run as it is, at
\* once: the cycle of the Step is as it was (no attempt, no wait and no
\* fallback is added, and a fallback only ever receives an error of exec),
\* post of the Step is not called when its prep raised,
\* post of no enclosing Flow is called, and nothing of the traversal goes
\* on.
C32_OnlyExecIsRetried ==
    mode = "flow" =>
        /\ phase = "prep" => visit = FreshCycle
        /\ visit.fails <= visit.execCalls
        /\ visit.fallbackCalls = 1 =>
              visit.fallbackArg = ExecErr(PrepVal, visit.execCalls)
        /\ (status = "raised" /\ flowError = PrepError) =>
              /\ phase = "prep"
              /\ Top.class = "Node"
              /\ visit.execCalls = 0
              /\ visit.fallbackCalls = 0
              /\ NodePosts = NodeVisits - 1
        /\ (status = "raised" /\ flowError = PostError) =>
              /\ phase = "post"
              /\ Top.class = "Node"
              /\ visit.pc = "returned"
              /\ flowPostArg = visit.result
              /\ postLog[Len(postLog)] = Top.id
              /\ NodePosts = NodeVisits
        /\ status = "raised" =>
              /\ Top.id = visits[Len(visits)]
              /\ ~ENABLED OrchestrateStart
              /\ ~ENABLED FlowPrepReturn
              /\ ~ENABLED FlowExecResolve
              /\ ~ENABLED FlowExecReject
              /\ ~ENABLED FlowFallbackRaise
              /\ ~ENABLED StepPhaseRaise
              /\ \A a \in Actions : ~ENABLED FlowPostReturn(a)

\* prep of B, the first Step of the nested Flow C, raised: the run of F
\* raised that error with no call of exec, and neither the successor A of B
\* nor post of B, C or F followed.
C32_Witness ==
    /\ mode = "flow"
    /\ status = "raised"
    /\ flowError = PrepError
    /\ visits = <<"C", "B">>
    /\ successors["B"]["default"] = "A"
    /\ visit.execCalls = 0
    /\ postLog = <<>>

\* post of B raised after exec had failed twice and the fallback returned:
\* the run of F raised the error of post, and the cycle of B was not taken
\* up again.
C32_WitnessPost ==
    /\ mode = "flow"
    /\ status = "raised"
    /\ flowError = PostError
    /\ visits = <<"C", "B">>
    /\ visit.execCalls = 2
    /\ visit.fallbackCalls = 1
    /\ visit.pc = "returned"
    /\ postLog = <<"B">>

\* ----------------------------------- Flow, BatchFlow, ParallelBatchFlow
NoSucc == [l \in RegLabels |-> None]

\* S.next(T)
OrchSucc(o) == IF o = "S" THEN next(NoSucc, "T") ELSE NoSucc

\* new Flow(S) for O, new Flow(U) for T
OrchStart(o) == IF o = "O" THEN "S" ELSE "U"

\* what post of a Step returns: nothing, or a label with no successor
OrchActions == {Undefined, "x"}

\* the items prep of a ParallelBatchNode returns
OrchItem(i) == i + 10

\* A batch Flow whose prep returned an empty array runs its graph once.
CallsOfAtLeastOne(c, bp) ==
    IF c = "Flow" THEN 1
    ELSE IF ~bp.isArray THEN 0
    ELSE IF bp.len = 0 THEN 1 ELSE bp.len

\* The calls of _orchestrate that _run makes: one in Flow._run; in the
\* batch Flows none when prep returned no array (the early return), else one
\* for each element of the array, none for the empty array that
\* BatchFlow.prep returns.
CallsOf(c, bp) ==
    IF c = "Flow" THEN 1
    ELSE IF ~bp.isArray THEN 0
    ELSE bp.len

NSets == CallsOf(oclass, batchParams)
Sets == 1..NSets

Call(o, ph, arg) == [obj |-> o, phase |-> ph, arg |-> arg]

\* Every call of _orchestrate works on a copy of the context.
OrchestrateArgCopy(s) == "copy"

\* await this._orchestrate(shared, params): the shared of _run is handed on
OrchestrateArg(s) == s

\* await current._run(shared): the shared of _orchestrate is handed on
RunArg(s) == s

\* The for loop of BatchFlow._run does not await _orchestrate.
LaunchesAllBatch(c) == c # "Flow"

\* ParallelBatchFlow._run maps the parameter sets to calls of _orchestrate
\* and awaits them together; BatchFlow._run awaits each in its for loop, and
\* Flow._run makes one call
LaunchesAll(c) == c = "ParallelBatchFlow"

\* The catch block of BatchFlow._run goes on with the next parameter set.
RethrowsUnlessBatch(c) == c # "BatchFlow"

\* What a call of _orchestrate raises leaves _run: Flow._run has no try
\* block, the catch blocks of BatchFlow._run and ParallelBatchFlow._run
\* throw the error again.
Rethrows(c) == TRUE

\* The join of ParallelBatchFlow._run resolves with the first call.
AnyDone(others) == TRUE

\* await Promise.all(...) resolves when every call of _orchestrate has
\* resolved; in the for loop of BatchFlow._run the calls before have
AllDone(others) == \A u \in others : trav[u].st = "done"

\* The parameters of the Flow win over those of the parameter set.
mergedParamsOwnWins(own, bp) ==
    [k \in Keys |-> IF own[k] # Absent THEN own[k] ELSE bp[k]]

\* const mergedParams = { ...this._params, ...bp }
mergedParams(own, bp) ==
    [k \in Keys |-> IF bp[k] # Absent THEN bp[k] ELSE own[k]]

\* pr ? ... : ... in Flow._run: prep returned an object
Truthy(bp) == bp.isArray \/ bp.len > 0

\* The params call t of _orchestrate is given.  Flow._run: pr ?
\* { ...this._params, ...pr } : this._params; the batch Flows: mergedParams.
ParamsOf(t) ==
    IF oclass = "Flow"
    THEN IF Truthy(batchParams) THEN mergedParams(oparams, BatchParam(1))
         ELSE oparams
    ELSE mergedParams(oparams, BatchParam(t))

\* setParams adds the parameters to those the object has.
setParamsMerges(old, params) == mergedParams(old, params)

\* setParams(params): this._params = { ...params }
setParams(old, params) == params

\* _orchestrate runs the objects of the graph themselves.
OrchAlias(o) ==
    [id |-> o, copy |-> FALSE, params |-> defs[o].params,
     successors |-> defs[o].successors]

\* clone(): a new object with a copy of _params and of _successors
OrchClone(o) ==
    [id |-> o, copy |-> TRUE, params |-> defs[o].params,
     successors |-> defs[o].successors]

\* The object that a loop of _orchestrate, called with prm and p, runs for
\* o: current = o.clone(); current.setParams(p); current._run(prm).  read
\* is what its prep returned.
Frame(o, prm, p) ==
    LET c == OrchClone(o)
    IN [id |-> c.id, copy |-> c.copy, successors |-> c.successors,
        params |-> setParams(c.params, p), shared |-> RunArg(prm),
        param |-> prm, read |-> 0]

\* this.currentRetry of the innermost object of the call tr: its own when
\* it is a copy
Counter(tr) ==
    LET top == tr.stack[Len(tr.stack)]
    IN IF top.copy THEN tr.cr ELSE defs[top.id].currentRetry

\* what the call tr has written to the object of the graph it runs, when
\* this is not a copy
WriteThrough(d, tr) ==
    IF tr.stack = <<>> THEN d
    ELSE LET top == tr.stack[Len(tr.stack)]
         IN IF top.copy THEN d
            ELSE [d EXCEPT ![top.id].currentRetry = tr.cr,
                           ![top.id].params = top.params]

\* call t of _orchestrate up to its first await: the copy of S, setParams,
\* _run, prep
Started(t) ==
    [FreshTrav EXCEPT !.st = "running",
                      !.stack = <<Frame("S", OrchestrateArg(oshared),
                                        ParamsOf(t))>>,
                      !.phase = "prep", !.cr = defs["S"].currentRetry]

\* post is called with the context as it is now.
PostPrepArgFresh(saved, current) == current

\* BaseNode._run: post(shared, p, e) is called with the p that prep returned
PostPrepArg(saved, current) == saved

\* What follows in O._run when the call t of _orchestrate became tr1, calls
\* being the calls of prep, exec and post made on the way, cnt1 and wr1
\* shared.count and its last write after them.
After(t, tr1, calls, cnt1, wr1) ==
    LET ends == trav[t].st = "running" /\ tr1.st = "done"
        raises == trav[t].st = "running" /\ tr1.st = "raised"
        over == ends \/ (raises /\ ~Rethrows(oclass))
        first == Started(t + 1)
    IN /\ UNCHANGED <<nodeVars, pipe, flowVars, oclass, ostart, stepKind, orchRetries,
                      batchParams, oshared, oparams>>
       /\ count' = cnt1
       /\ IF ophase = "orch" /\ raises /\ Rethrows(oclass)
          THEN \* no catch in Flow._run, throw error in BatchFlow._run, and
               \* Promise.all rejects in ParallelBatchFlow._run
               /\ trav' = [trav EXCEPT ![t] = tr1]
               /\ ophase' = "raised"
               /\ oerror' = tr1.error
               /\ ctxLog' = ctxLog \cup calls
               /\ defs' = WriteThrough(defs, tr1)
               /\ ohist' = [ohist EXCEPT !.write = wr1]
          ELSE IF ophase = "orch" /\ over /\ ~LaunchesAll(oclass) /\ t < NSets
          THEN \* the for loop of BatchFlow._run: the next parameter set
               /\ trav' = [trav EXCEPT ![t] = tr1, ![t + 1] = first]
               /\ ctxLog' = ctxLog \cup calls
                               \cup {Call("S", "prep", first.stack[1].shared)}
               /\ defs' = WriteThrough(WriteThrough(defs, tr1), first)
               /\ ohist' = [ohist EXCEPT !.write = wr1,
                                         !.calls = Append(@, t + 1)]
               /\ UNCHANGED <<ophase, oerror>>
          ELSE IF ophase = "orch" /\ over /\ AllDone(Sets \ {t})
          THEN \* return await this.post(shared, ...)
               /\ trav' = [trav EXCEPT ![t] = tr1]
               /\ ophase' = "post"
               /\ ctxLog' = ctxLog \cup calls \cup {Call("O", "post", oshared)}
               /\ defs' = WriteThrough(defs, tr1)
               /\ ohist' = [ohist EXCEPT !.write = wr1, !.posts = @ + 1,
                                         !.postPrep = Append(@, batchParams)]
               /\ UNCHANGED oerror
          ELSE /\ trav' = [trav EXCEPT ![t] = tr1]
               /\ ctxLog' = ctxLog \cup calls
               /\ defs' = WriteThrough(defs, tr1)
               /\ ohist' = [ohist EXCEPT !.write = wr1]
               /\ UNCHANGED <<ophase, oerror>>

\* the array []
EmptyArray == [isArray |-> TRUE, len |-> 0]

\* post of a batch Flow is given what prep returned.
EarlyPostArgAsReturned(bp) == bp

\* if (!batchParams || !Array.isArray(batchParams)) return await
\* this.post(shared, [], undefined)
EarlyPostArg(bp) == EmptyArray

\* new Error("Flow has no start node")
NoStartError == Val(0, 0, "Flow has no start node")

\* _orchestrate goes on to its loop without a start.
ThrowsWithoutStartNever(start) == FALSE

\* let current = this.start?.clone(); if (!current) throw ...
ThrowsWithoutStart(start) == start = None

\* nothing of an earlier run of O is under way
Quiescent ==
    \A t \in 1..MaxSets :
        /\ trav[t].st # "running"
        /\ \A i \in 1..MaxFanOut :
              trav[t].cyc[i].pc \notin {"awaitExec", "awaitFallback"}

\* O.run(Ctx), the first or when an earlier run has ended and left nothing
\* behind, with a context whose count is 0: BaseNode.run, _run of the class
\* of O, the call of O.prep
ORun ==
    /\ ophase \in {"idle", "done", "raised"}
    /\ Quiescent
    /\ ophase' = "prep"
    /\ oshared' = Ctx
    /\ ctxLog' = {Call("O", "prep", Ctx)}
    /\ trav' = [t \in 1..MaxSets |-> FreshTrav]
    /\ oerror' = NoVal
    /\ count' = 0
    /\ ohist' = [FreshHist EXCEPT !.rerun = ophase # "idle"]
    /\ UNCHANGED <<nodeVars, pipe, flowVars, oclass, ostart, stepKind, orchRetries,
                   batchParams, oparams, defs>>

\* prep of O returned: the first call of _orchestrate, all the calls in a
\* ParallelBatchFlow, or post at once when a batch Flow got no array or an
\* empty one
OPrepReturn ==
    /\ ophase = "prep"
    /\ UNCHANGED <<nodeVars, pipe, flowVars, oclass, ostart, stepKind, orchRetries,
                   batchParams, oshared, oparams, count>>
    /\ IF NSets = 0
       THEN /\ ophase' = "post"
            /\ ctxLog' = ctxLog \cup {Call("O", "post", oshared)}
            /\ ohist' = [ohist EXCEPT !.posts = @ + 1,
                                      !.postPrep =
                                          Append(@, IF batchParams.isArray
                                                    THEN batchParams
                                                    ELSE EarlyPostArg(batchParams))]
            /\ UNCHANGED <<trav, defs, oerror>>
       ELSE IF ThrowsWithoutStart(ostart)
       THEN \* _orchestrate raises before its loop, and _run with it
            LET n == IF LaunchesAll(oclass) THEN NSets ELSE 1
            IN /\ ophase' = "raised"
               /\ oerror' = NoStartError
               /\ trav' = [t \in 1..MaxSets |->
                              IF t <= n
                              THEN [FreshTrav EXCEPT !.st = "raised",
                                                     !.error = NoStartError]
                              ELSE trav[t]]
               /\ ohist' = [ohist EXCEPT !.calls = [t \in 1..n |-> t]]
               /\ UNCHANGED <<ctxLog, defs>>
       ELSE LET n == IF LaunchesAll(oclass) THEN NSets ELSE 1
            IN /\ ophase' = "orch"
               /\ UNCHANGED oerror
               /\ ctxLog' = ctxLog
                     \cup {Call("S", "prep", Started(1).stack[1].shared)}
               /\ trav' = [t \in 1..MaxSets |->
                              IF t <= n THEN Started(t) ELSE trav[t]]
               /\ defs' = WriteThrough(defs, Started(n))
               /\ ohist' = [ohist EXCEPT !.calls = [t \in 1..n |-> t]]

\* prep of the innermost object of call t returned, that of S with the
\* shared.count it read.  A Flow calls _orchestrate with its _params, which
\* runs the copy of its start; a Node starts its retry cycle, a
\* ParallelBatchNode one for each item, up to the call of exec.
TPrepReturn(t) ==
    LET tr == trav[t]
        top == tr.stack[Len(tr.stack)]
        k == Len(tr.stack)
    IN /\ tr.st = "running"
       /\ tr.phase = "prep"
       /\ IF stepKind[top.id] = "Flow"
          THEN LET f == Frame(OrchStart(top.id), OrchestrateArg(top.shared),
                              top.params)
               IN After(t, [tr EXCEPT !.stack = Append(@, f),
                                      !.cr = defs[f.id].currentRetry],
                        {Call(f.id, "prep", f.shared)}, count, ohist.write)
          ELSE LET cr1 == ForInit(Counter(tr))
                   c1 == [i \in 1..MaxFanOut |->
                            IF stepKind[top.id] = "ParallelBatchNode"
                            THEN EnterLoop([FreshCycle EXCEPT
                                               !.item = OrchItem(i)],
                                           cr1, orchRetries)
                            ELSE IF i = 1
                            THEN EnterLoop([FreshCycle EXCEPT !.item = PrepVal],
                                           cr1, orchRetries)
                            ELSE FreshCycle]
               IN After(t, [tr EXCEPT !.phase = "exec", !.cr = cr1, !.cyc = c1,
                                      !.stack[k].read =
                                          IF top.id = "S" THEN count ELSE @],
                        {Call(top.id, "exec",
                              IF stepKind[top.id] = "ParallelBatchNode"
                              THEN "item" ELSE "prepRes")},
                        count, ohist.write)

\* What follows when the cycles of call t became c1 and this.currentRetry
\* cr1 by a step of cycle i: post of the Step is called, the call raises, or
\* nothing, as when the call has raised before.
TSettle(t, c1, cr1, i) ==
    LET tr == [trav[t] EXCEPT !.cyc = c1, !.cr = cr1]
        top == tr.stack[Len(tr.stack)]
        post == [tr EXCEPT !.phase = "post"]
        raised == [tr EXCEPT !.st = "raised", !.error = c1[i].error]
    IN IF ~Ended(c1[i]) \/ tr.st # "running"
       THEN After(t, tr, {}, count, ohist.write)
       ELSE IF stepKind[top.id] = "Node"
       THEN IF Resolved(c1[i])
            THEN After(t, post, {Call(top.id, "post", top.shared)}, count,
                       ohist.write)
            ELSE After(t, raised, {}, count, ohist.write)
       ELSE IF JoinRejects(c1[i])
       THEN After(t, raised, {}, count, ohist.write)
       ELSE IF \A j \in 1..MaxFanOut : c1[j].pc = "returned"
       THEN After(t, post, {Call(top.id, "post", top.shared)}, count,
                  ohist.write)
       ELSE After(t, tr, {}, count, ohist.write)

\* exec of cycle i of call t returns
TExecResolve(t, i) ==
    LET c == trav[t].cyc
    IN /\ c[i].pc = "awaitExec"
       /\ TSettle(t, [c EXCEPT ![i] =
                         Returned(@, ExecOut(c[i].item, c[i].execCalls))],
                  Counter(trav[t]), i)

\* exec of cycle i of call t raises
TExecReject(t, i) ==
    LET c == trav[t].cyc
        cr == Counter(trav[t])
    IN /\ c[i].pc = "awaitExec"
       /\ LET e == ExecErr(c[i].item, c[i].execCalls)
              d == Catch(c[i], cr, orchRetries, 0, e)
          IN TSettle(t, [c EXCEPT ![i] = Retry(d, cr, orchRetries)],
                     IF d.pc = "caught" THEN cr + 1 ELSE cr, i)

\* an overridden execFallback of cycle i of call t returns a substitute
TFallbackReturn(t, i) ==
    LET c == trav[t].cyc
    IN /\ c[i].pc = "awaitFallback"
       /\ TSettle(t, [c EXCEPT ![i] = Returned(@, FallbackOut(c[i].item))],
                  Counter(trav[t]), i)

\* Node.execFallback of cycle i of call t raises the error it was given
TFallbackRaise(t, i) ==
    LET c == trav[t].cyc
    IN /\ c[i].pc = "awaitFallback"
       /\ TSettle(t, [c EXCEPT ![i] =
                         Threw(@, execFallback(c[i].item, c[i].fallbackArg))],
                  Counter(trav[t]), i)

\* post of the innermost object of call t returns a, that of S having set
\* shared.count to one more than the prepRes it was called with:
\* getNextNode, then the copy of the successor is run with the params of
\* this _orchestrate, or the loop ends and with it either the call t or, in
\* a nested Flow, its _orchestrate, after which its post is called
TPostReturn(t, a) ==
    LET tr == trav[t]
        top == tr.stack[Len(tr.stack)]
        outer == SubSeq(tr.stack, 1, Len(tr.stack) - 1)
        nextNode == getNextNode(top.successors, a)
        f == Frame(nextNode, top.param, top.params)
        writes == top.id = "S"
        cnt1 == IF writes THEN PostPrepArg(top.read, count) + 1 ELSE count
        wr1 == IF writes
               THEN [read |-> top.read, n |-> ohist.write.n + 1]
               ELSE ohist.write
    IN /\ tr.st = "running"
       /\ tr.phase = "post"
       /\ IF nextNode # None
          THEN After(t, [tr EXCEPT !.stack = Append(outer, f), !.phase = "prep",
                                  !.cr = defs[nextNode].currentRetry,
                                  !.cyc = FreshTrav.cyc],
                     {Call(nextNode, "prep", f.shared)}, cnt1, wr1)
          ELSE IF outer = <<>>
          THEN After(t, [FreshTrav EXCEPT !.st = "done"], {}, cnt1, wr1)
          ELSE After(t, [tr EXCEPT !.stack = outer, !.cr = 0,
                                  !.cyc = FreshTrav.cyc],
                     {Call(outer[Len(outer)].id, "post",
                           outer[Len(outer)].shared)}, cnt1, wr1)

\* post of O returns, and O.run(Ctx) with it
OPostReturn ==
    /\ ophase = "post"
    /\ ophase' = "done"
    /\ UNCHANGED <<nodeVars, pipe, flowVars, oclass, ostart, stepKind, orchRetries,
                   batchParams, oshared, trav, ctxLog, oerror, oparams, defs,
                   count, ohist>>

\* the objects of the graph as constructed, with S.next(T)
Defs0 ==
    [o \in {"S", "T", "U"} |->
        [params |-> StepParams, currentRetry |-> 0,
         successors |-> OrchSucc(o)]]

\* O is a Flow, BatchFlow or ParallelBatchFlow that was given parameters of
\* its own; its prep returns nothing, one object of parameters or, in the
\* batch Flows, an array of up to MaxSets parameter sets.  The Steps are new
\* Node(n), ParallelBatchNodes only under a Flow or BatchFlow, and were
\* given parameters too; T may be a Flow.  Or O is new Flow(), with no
\* start.
OrchInit ==
    /\ NoNode
    /\ NoFlow
    /\ pipe = NoPipe
    /\ oclass \in {"Flow", "BatchFlow", "ParallelBatchFlow"}
    /\ ostart \in {"S", None}
    /\ ostart = None =>
          /\ oclass = "Flow"
          /\ stepKind = [o \in {"S", "T", "U"} |-> "Node"]
          /\ orchRetries = 1
    /\ stepKind \in [{"S", "T", "U"} -> {"Node", "ParallelBatchNode", "Flow"}]
    /\ stepKind["S"] # "Flow"
    /\ stepKind["U"] = "Node"
    /\ oclass = "ParallelBatchFlow" =>
          \A o \in {"S", "T"} : stepKind[o] # "ParallelBatchNode"
    /\ orchRetries \in 1..MaxFlowRetries
    /\ \/ \E len \in {0, 1} : batchParams = [isArray |-> FALSE, len |-> len]
       \/ /\ oclass # "Flow"
          /\ \E len \in 0..MaxSets : batchParams = [isArray |-> TRUE, len |-> len]
    /\ ophase = "idle"
    /\ oshared = "none"
    /\ trav = [t \in 1..MaxSets |-> FreshTrav]
    /\ ctxLog = {}
    /\ oerror = NoVal
    /\ oparams = OwnParams
    /\ defs = Defs0
    /\ count = 0
    /\ ohist = FreshHist

OrchNext ==
    \/ ORun
    \/ OPrepReturn
    \/ \E t \in 1..MaxSets : TPrepReturn(t)
    \/ \E t \in 1..MaxSets, i \in 1..MaxFanOut : TExecResolve(t, i)
    \/ \E t \in 1..MaxSets, i \in 1..MaxFanOut : TExecReject(t, i)
    \/ \E t \in 1..MaxSets, i \in 1..MaxFanOut : TFallbackReturn(t, i)
    \/ \E t \in 1..MaxSets, i \in 1..MaxFanOut : TFallbackRaise(t, i)
    \/ \E t \in 1..MaxSets, a \in OrchActions : TPostReturn(t, a)
    \/ OPostReturn

SpecOrch == OrchInit /\ [][OrchNext]_vars

\* The batch classes: a BatchNode or ParallelBatchNode that is run on its
\* own, or a BatchFlow or ParallelBatchFlow over its graph.
BatchInit ==
    \/ Init /\ kind # "Node"
    \/ OrchInit /\ oclass # "Flow"

BatchNext ==
    \/ oparams = NoParams /\ Next
    \/ oparams = OwnParams /\ OrchNext

SpecBatch == BatchInit /\ [][BatchNext]_vars


\* C18: in a run O.run(Ctx) of a Flow, a BatchFlow or a ParallelBatchFlow,
\* with or without a Flow nested in the graph, every call of prep and of
\* post, of O and of every object run in the graph, has the object Ctx of
\* the caller as its first argument; every _run and every _orchestrate is
\* called with Ctx; and exec is called with what prep returned or with one
\* item of it, never with the context.
C18_OneSharedContext ==
    /\ \A c \in ctxLog :
          /\ c.phase \in {"prep", "post"} => c.arg = Ctx
          /\ c.phase = "exec" => c.arg \in {"prepRes", "item"}
    /\ oshared \in {"none", Ctx}
    /\ \A t \in 1..MaxSets : \A k \in 1..Len(trav[t].stack) :
          /\ trav[t].stack[k].shared = Ctx
          /\ trav[t].stack[k].param = Ctx

\* A ParallelBatchFlow over two parameter sets has returned; prep and post
\* of O, of S, of the nested Flow T and of its Step U were called, each with
\* the context of the caller, and exec of U with what prep returned.
C18_Witness ==
    /\ oclass = "ParallelBatchFlow"
    /\ NSets = 2
    /\ stepKind["T"] = "Flow"
    /\ ophase = "done"
    /\ \A o \in OrchObjs : \A ph \in {"prep", "post"} :
          Call(o, ph, Ctx) \in ctxLog
    /\ Call("U", "exec", "prepRes") \in ctxLog

\* the calls of _orchestrate in which prep or post of an object is awaited
InPrepOrPost ==
    {t \in 1..MaxSets :
        trav[t].st = "running" /\ trav[t].phase \in {"prep", "post"}}

\* the retry cycles in which exec, or the fallback, is awaited
InExec ==
    {x \in (1..MaxSets) \X (1..MaxFanOut) :
        trav[x[1]].cyc[x[2]].pc \in {"awaitExec", "awaitFallback", "sleeping"}}

\* C20: in a run of a Flow or of a BatchFlow, with ParallelBatchNodes in the
\* graph or not, at most one call of prep or post, of O or of an object of
\* the graph, is awaited at any time, and none while exec of some cycle is
\* awaited; the cycles in which exec is awaited together are cycles of the
\* items of one visit of one ParallelBatchNode.
C20_OnePhaseAtATime ==
    oclass \in {"Flow", "BatchFlow"} =>
        /\ Cardinality(InPrepOrPost)
              + (IF ophase \in {"prep", "post"} THEN 1 ELSE 0) <= 1
        /\ (InPrepOrPost # {} \/ ophase \in {"prep", "post"}) => InExec = {}
        /\ \A x, y \in InExec : x[1] = y[1]
        /\ \A x \in InExec :
              LET tr == trav[x[1]]
              IN Cardinality(InExec) > 1 =>
                    stepKind[tr.stack[Len(tr.stack)].id] = "ParallelBatchNode"

\* In a BatchFlow the call for the first parameter set has ended and, in
\* the call for the second, exec of both items of the ParallelBatchNode S is
\* awaited, for the first item after a failure.
C20_Witness ==
    /\ oclass = "BatchFlow"
    /\ trav[1].st = "done"
    /\ trav[2].st = "running"
    /\ stepKind["S"] = "ParallelBatchNode"
    /\ trav[2].stack[1].id = "S"
    /\ trav[2].cyc[1].pc = "awaitExec"
    /\ trav[2].cyc[1].fails = 1
    /\ trav[2].cyc[2].pc = "awaitExec"

\* the objects that call t of _orchestrate is running
FramesOf(t) == {trav[t].stack[k] : k \in 1..Len(trav[t].stack)}

\* C21: a BatchFlow calls _orchestrate once for each parameter set, in the
\* order of the array, call t+1 only when call t has returned; when a call
\* raises, no call is made for a later set, post of the BatchFlow is not
\* called and run(shared) raises the error of that call; and post is called
\* only when the calls for all the sets have returned.
C21_SequentialBatchFlow ==
    oclass = "BatchFlow" =>
        /\ Len(ohist.calls) <= NSets
        /\ ohist.calls = [t \in 1..Len(ohist.calls) |-> t]
        /\ \A t \in 1..MaxSets :
              /\ trav[t].st # "notStarted" <=> t <= Len(ohist.calls)
              /\ (t > 1 /\ trav[t].st # "notStarted") =>
                    trav[t - 1].st = "done"
              /\ trav[t].st = "raised" =>
                    /\ ophase = "raised"
                    /\ oerror = trav[t].error
                    /\ Len(ohist.calls) = t
                    /\ ohist.posts = 0
        /\ ophase = "raised" => \E t \in Sets : trav[t].st = "raised"
        /\ ophase \in {"post", "done"} =>
              /\ \A t \in Sets : trav[t].st = "done"
              /\ ohist.posts = 1

\* The call for the first parameter set returned, the call for
\* the second raised: no call for a later set, no post, the run has raised.
C21_Witness ==
    /\ oclass = "BatchFlow"
    /\ NSets = MaxSets
    /\ ohist.calls = <<1, 2>>
    /\ trav[1].st = "done"
    /\ trav[2].st = "raised"
    /\ ophase = "raised"
    /\ oerror = ExecErr(PrepVal, orchRetries)
    /\ ohist.posts = 0

\* C22: a ParallelBatchFlow calls _orchestrate for every parameter set
\* before any of the calls goes on; its post is called at most once, and
\* only when every call has returned; when a call raises, run(shared)
\* raises and post is not called.
C22_ParallelBatchFlow ==
    oclass = "ParallelBatchFlow" =>
        /\ ophase \in {"orch", "post", "done", "raised"} =>
              /\ ohist.calls = [t \in 1..NSets |-> t]
              /\ \A t \in Sets : trav[t].st # "notStarted"
        /\ ohist.posts <= 1
        /\ ohist.posts = 1 <=> ophase \in {"post", "done"}
        /\ ophase \in {"post", "done"} => \A t \in Sets : trav[t].st = "done"
        /\ (\E t \in Sets : trav[t].st = "raised") =>
              /\ ophase = "raised"
              /\ ohist.posts = 0
              /\ \E t \in Sets : trav[t].st = "raised"
                                    /\ oerror = trav[t].error
        /\ ophase = "raised" => \E t \in Sets : trav[t].st = "raised"

\* Both calls were made; the first has returned while the second awaits
\* post of T: post of the ParallelBatchFlow is not called yet.
C22_Witness ==
    /\ oclass = "ParallelBatchFlow"
    /\ NSets = 2
    /\ ophase = "orch"
    /\ trav[1].st = "done"
    /\ trav[2].st = "running"
    /\ trav[2].phase = "post"
    /\ trav[2].stack[1].id = "T"
    /\ ohist.posts = 0

\* The second call raised after the first returned: the run raised without
\* a call of post.
C22_WitnessRaised ==
    /\ oclass = "ParallelBatchFlow"
    /\ NSets = 2
    /\ ophase = "raised"
    /\ trav[1].st = "done"
    /\ trav[2].st = "raised"
    /\ ohist.posts = 0

\* C23: every object run in call t of _orchestrate of a batch Flow, a Step
\* of a nested Flow included, has as _params the parameters of O overridden
\* key by key by parameter set t: the key only O has keeps the value of O,
\* the key both have and the key only the set has carry the value of set t,
\* and no key carries a value of another set; the parameters of O, and
\* those of the objects of the graph, stay as they were.
C23_MergedParams ==
    /\ oclass # "Flow" =>
          \A t \in 1..MaxSets : \A f \in FramesOf(t) :
              /\ f.params["a"] = OwnVal
              /\ f.params["b"] = SetVal(t)
              /\ f.params["c"] = SetVal(t)
              /\ \A k \in Keys : f.params[k].from = "set" =>
                                    f.params[k].of = t
    /\ oparams = OwnParams
    /\ \A o \in {"S", "T", "U"} : defs[o].params = StepParams

\* In a ParallelBatchFlow the call for set 1 runs T and that for set 2 the
\* Step U of the nested Flow T, each with the values of its own set.
C23_Witness ==
    /\ oclass = "ParallelBatchFlow"
    /\ stepKind["T"] = "Flow"
    /\ trav[1].st = "running"
    /\ Len(trav[1].stack) = 1
    /\ trav[1].stack[1].id = "T"
    /\ trav[1].stack[1].params["b"] = SetVal(1)
    /\ trav[2].st = "running"
    /\ Len(trav[2].stack) = 2
    /\ trav[2].stack[2].id = "U"
    /\ trav[2].stack[2].params["b"] = SetVal(2)
    /\ trav[2].stack[2].params["a"] = OwnVal

\* C34: every object that call t of _orchestrate runs, a Step of a nested
\* Flow included, has as _params exactly the parameters of the call: those
\* of O when prep of the Flow O returned nothing, else those of O
\* overridden key by key by what prep returned (by parameter set t in a
\* batch Flow).  The parameters the object of the graph was given before
\* the run are not in the copy, not even under a key the call has no
\* value for, and stay on the object of the graph; so all the objects one
\* call runs have equal parameters.
C34_TraversalParams ==
    /\ \A t \in 1..MaxSets : \A f \in FramesOf(t) :
          /\ f.params["a"] = OwnVal
          /\ f.params["b"] =
                IF oclass = "Flow"
                THEN IF batchParams.len = 1 THEN SetVal(1) ELSE OwnVal
                ELSE SetVal(t)
          /\ f.params["c"] =
                IF oclass = "Flow"
                THEN IF batchParams.len = 1 THEN SetVal(1) ELSE Absent
                ELSE SetVal(t)
          /\ f.params["d"] = Absent
          /\ \A g \in FramesOf(t) : g.params = f.params
    /\ \A o \in {"S", "T", "U"} : defs[o].params = StepParams

\* prep of the Flow O returned nothing, S ended and T, a nested Flow, runs
\* U: the copies of T and U carry the two parameters of O and nothing of
\* what T and U were given before the run.
C34_Witness ==
    /\ oclass = "Flow"
    /\ batchParams.len = 0
    /\ stepKind["T"] = "Flow"
    /\ Len(trav[1].stack) = 2
    /\ trav[1].stack[1].id = "T"
    /\ trav[1].stack[2].id = "U"
    /\ trav[1].stack[2].params = OwnParams
    /\ defs["U"].params["d"] = StepVal

\* prep of the Flow O returned an object with the keys b and c: the copy of
\* T runs with a of O and with b and c of that object.
C34_WitnessExtras ==
    /\ oclass = "Flow"
    /\ batchParams.len = 1
    /\ Len(trav[1].stack) = 1
    /\ trav[1].stack[1].id = "T"
    /\ trav[1].stack[1].params["a"] = OwnVal
    /\ trav[1].stack[1].params["b"] = SetVal(1)
    /\ trav[1].stack[1].params["c"] = SetVal(1)

\* C36: O.run(shared) on a Flow constructed without a start calls prep of
\* O and then raises "Flow has no start node", whatever prep returned: no
\* phase of any Step is called, post of O is not called, and neither the
\* context nor the graph is written.
C36_NoStartNode ==
    (oclass = "Flow" /\ ostart = None /\ ophase # "idle") =>
        /\ ophase \in {"prep", "raised"}
        /\ ctxLog = {Call("O", "prep", Ctx)}
        /\ ohist.posts = 0
        /\ count = 0
        /\ ohist.write = NoWrite
        /\ defs = Defs0
        /\ \A t \in 1..MaxSets : trav[t].stack = <<>>
        /\ ophase = "raised" =>
              /\ oerror = NoStartError
              /\ ohist.calls = <<1>>
              /\ ~ENABLED OPostReturn
              /\ \A t \in 1..MaxSets : ~ENABLED TPrepReturn(t)

\* new Flow() was run, its prep returned an object of parameters, and the
\* run raised the error of the missing start.
C36_Witness ==
    /\ oclass = "Flow"
    /\ ostart = None
    /\ batchParams.len = 1
    /\ ophase = "raised"
    /\ oerror = NoStartError
    /\ ctxLog = {Call("O", "prep", Ctx)}

\* C35: a batch class whose prep returns no array does nothing between prep
\* and post.  A BatchNode or ParallelBatchNode starts no cycle, so exec and
\* execFallback are not called, and its post is called once with the empty
\* array as what was executed.  A BatchFlow or ParallelBatchFlow, whether
\* its prep returned nothing or an object that is no array, makes no call
\* of _orchestrate and runs no object of its graph, and its post is called
\* once with the empty array in the place of what prep returned.
C35_NoCollection ==
    /\ (kind # "Node" /\ ~prepRes.isArray) =>
          /\ \A i \in 1..MaxItems : cyc[i] = FreshCycle
          /\ results = <<>>
          /\ npc \in {"idle", "prep", "post", "done"}
          /\ postCalls = (IF npc \in {"post", "done"} THEN 1 ELSE 0)
          /\ postArg = <<>>
    /\ (oclass # "Flow" /\ ~batchParams.isArray) =>
          /\ \A t \in 1..MaxSets : trav[t] = FreshTrav
          /\ ohist.calls = <<>>
          /\ ophase \in {"idle", "prep", "post", "done"}
          /\ ctxLog \subseteq {Call("O", "prep", Ctx), Call("O", "post", Ctx)}
          /\ count = 0
          /\ ohist.posts = (IF ophase \in {"post", "done"} THEN 1 ELSE 0)
          /\ ohist.postPrep =
                (IF ophase \in {"post", "done"} THEN <<EmptyArray>> ELSE <<>>)

\* prep of a ParallelBatchFlow returned an object that is no array, and
\* its run has ended after one call of post with the empty array.
C35_Witness ==
    /\ oclass = "ParallelBatchFlow"
    /\ batchParams = [isArray |-> FALSE, len |-> 1]
    /\ ophase = "done"
    /\ ohist.postPrep = <<EmptyArray>>
    /\ ctxLog = {Call("O", "prep", Ctx), Call("O", "post", Ctx)}

\* prep of a ParallelBatchNode returned no array, and post was called with
\* the empty array.
C35_WitnessStep ==
    /\ kind = "ParallelBatchNode"
    /\ ~prepRes.isArray
    /\ npc = "post"
    /\ postCalls = 1
    /\ postArg = <<>>

\* C24: the runs of O, those that raise included, leave the graph as it was
\* constructed: every object of the graph keeps its _successors, its
\* _params and its currentRetry, whatever the runs did to the objects they
\* ran; so every run looks up the successors in the same map.
C24_GraphNotMutated ==
    /\ defs = Defs0
    /\ \A t \in 1..MaxSets : \A f \in FramesOf(t) :
          f.successors = OrchSucc(f.id)

\* In a run of O after another the copy of S has failed once and been given the
\* parameters of the run.
C24_Witness ==
    /\ ohist.rerun
    /\ oclass = "BatchFlow"
    /\ trav[1].st = "running"
    /\ trav[1].stack[1].id = "S"
    /\ trav[1].stack[1].params # defs["S"].params
    /\ trav[1].cr = 1
    /\ trav[1].cyc[1].fails = 1

\* C29: in a ParallelBatchFlow the calls of _orchestrate run copies of the
\* Steps: this.currentRetry of the copy a call runs counts the failures of
\* that call only, and the fallback of a Step is invoked, or its cycle
\* raises, only after maxRetries failures in that call, whatever fails in
\* the other calls.
C29_OwnCopies ==
    oclass = "ParallelBatchFlow" =>
        \A t \in 1..MaxSets :
            (trav[t].stack # <<>> /\ trav[t].phase = "exec") =>
                LET c == trav[t].cyc[1]
                IN /\ c.pc = "awaitExec" =>
                         /\ Counter(trav[t]) = c.fails
                         /\ c.execCalls = c.fails + 1
                   /\ c.fails < orchRetries =>
                         /\ c.fallbackCalls = 0
                         /\ c.pc \notin {"awaitFallback", "threw"}
                   /\ c.fallbackCalls = 1 => c.fails = orchRetries

\* The copy of S of the first call has used up its attempts and the
\* fallback is invoked, while the copy of the second call starts its
\* second attempt.
C29_Witness ==
    /\ oclass = "ParallelBatchFlow"
    /\ orchRetries = 2
    /\ trav[1].phase = "exec"
    /\ trav[1].stack[1].id = "S"
    /\ trav[1].cyc[1].pc = "awaitFallback"
    /\ trav[1].cyc[1].fails = 2
    /\ trav[2].phase = "exec"
    /\ trav[2].stack[1].id = "S"
    /\ trav[2].cyc[1].pc = "awaitExec"
    /\ trav[2].cyc[1].fails = 1
    /\ trav[2].cr = 1

\* C26: a run of a BatchFlow or ParallelBatchFlow whose prep returned the
\* empty array, as BatchFlow.prep does, makes no call of _orchestrate: no
\* object of the graph is run, no phase of a Step is called, shared.count is
\* not written, and post of the Flow is called once, at the return of prep.
C26_EmptyBatchIsNoOp ==
    (oclass # "Flow" /\ batchParams.isArray /\ batchParams.len = 0) =>
        /\ \A t \in 1..MaxSets : trav[t] = FreshTrav
        /\ ohist.calls = <<>>
        /\ \A c \in ctxLog : c.obj = "O"
        /\ count = 0
        /\ ohist.write = NoWrite
        /\ ophase \in {"idle", "prep", "post", "done"}
        /\ ohist.posts = (IF ophase \in {"post", "done"} THEN 1 ELSE 0)

\* The run of a BatchFlow over the empty array has returned.
C26_Witness ==
    /\ oclass = "BatchFlow"
    /\ batchParams = [isArray |-> TRUE, len |-> 0]
    /\ ophase = "done"
    /\ ohist.posts = 1
    /\ ctxLog = {Call("O", "prep", Ctx), Call("O", "post", Ctx)}

\* C30: in a ParallelBatchFlow the calls of _orchestrate share the context
\* and nothing orders their phases: a call whose prep or post is awaited can
\* always go on, whatever the other calls do.  post of S writes one more
\* than the prepRes that _run kept since prep returned, whatever was
\* written since, so that a write of another call made in between is lost;
\* in a Flow and a BatchFlow shared.count is the number of its writes.
C30_UnserializedPhases ==
    /\ ohist.write.n > 0 => count = ohist.write.read + 1
    /\ count <= ohist.write.n
    /\ oclass # "ParallelBatchFlow" => count = ohist.write.n
    /\ oclass = "ParallelBatchFlow" =>
          \A t \in 1..MaxSets :
              trav[t].st = "running" =>
                  /\ trav[t].phase = "prep" => ENABLED TPrepReturn(t)
                  /\ trav[t].phase = "post" => ENABLED TPostReturn(t, Undefined)

\* Both calls of a ParallelBatchFlow have run S and returned: shared.count
\* was written twice and is 1, the second write made from a value read
\* before the first.
C30_Witness ==
    /\ oclass = "ParallelBatchFlow"
    /\ NSets = 2
    /\ ophase = "done"
    /\ ohist.write.n = 2
    /\ ohist.write.read = 0
    /\ count = 1

\* ------------------------------------- the Glim pipeline (src/src/flow.js)
\* the Steps createYouTubeProcessorFlow constructs
PipeSteps ==
    {"ProcessYouTubeURL", "ExtractTopicsAndQuestions", "ProcessContent",
     "GenerateHTML"}

\* processUrl.next(extractTopicsAndQuestions);
\* extractTopicsAndQuestions.next(processContent);
\* processContent.next(generateHtml)
PipeSucc(x) ==
    IF x = "ProcessYouTubeURL" THEN next(NoSucc, "ExtractTopicsAndQuestions")
    ELSE IF x = "ExtractTopicsAndQuestions" THEN next(NoSucc, "ProcessContent")
    ELSE IF x = "ProcessContent" THEN next(NoSucc, "GenerateHTML")
    ELSE NoSucc

\* the class of a Step: ProcessContent extends BatchNode, the others Node
PipeKind(x) == IF x = "ProcessContent" THEN "BatchNode" ELSE "Node"

\* ProcessYouTubeURL and ProcessContent define execFallback, the others
\* inherit Node.execFallback
PipeFallback(x) ==
    IF x \in {"ProcessYouTubeURL", "ProcessContent"} THEN "override"
    ELSE "default"

\* what post of a Step can return: the return statements of its post
PostActions(x) ==
    IF x \in {"ProcessYouTubeURL", "ProcessContent"} THEN {"default", "error"}
    ELSE {"default"}

\* what prep of x returns: the batch items of ProcessContent, one for each
\* topic that has a title, an object for the others
PipePrepRes(x) ==
    IF x = "ProcessContent"
    THEN [isArray |-> TRUE, items |-> ItemsOf(pipe.items)]
    ELSE [isArray |-> FALSE, items |-> ItemsOf(1)]

\* exec of no Step catches what goes wrong in it.
ExecCatchesNothing(x) == FALSE

\* ProcessContent.exec is one try block whose catch returns a structure
\* with no questions; exec of the other Steps raises what goes wrong
ExecCatches(x) == x = "ProcessContent"

\* the structure the catch block of ProcessContent.exec returns
Degraded(item, k) == Val(item, k, "degraded")

\* _orchestrate runs the copy of x: setParams, _run, prep.  The copy is one
\* of an object that was never run itself: its currentRetry is 0.
Enter(x) ==
    /\ kind' = PipeKind(x)
    /\ maxRetries' = PipelineRetries
    /\ wait' = PipelineWait
    /\ fallbackKind' = PipeFallback(x)
    /\ prepRes' = PipePrepRes(x)
    /\ currentRetry' = 0
    /\ npc' = "prep"
    /\ cyc' = [i \in 1..MaxItems |-> FreshCycle]
    /\ results' = <<>>
    /\ postArg' = <<>>
    /\ postCalls' = 0
    /\ runError' = NoVal
    /\ doneOrder' = <<>>

Running == pipe.status = "running"

\* flow.run(shared): BaseNode.run, Flow._run, prep of the Flow, which is
\* BaseNode.prep, then _orchestrate with the copy of processUrl
PipeRun ==
    /\ pipe.status = "idle"
    /\ pipe' = [pipe EXCEPT !.status = "running",
                            !.cur = "ProcessYouTubeURL",
                            !.visits = <<"ProcessYouTubeURL">>]
    /\ Enter("ProcessYouTubeURL")
    /\ UNCHANGED <<flowVars, orchVars>>

\* prep of the Step returned
PipePrepReturn == Running /\ PrepReturn

\* exec of cycle i returns its result
PipeExecResolve(i) == Running /\ ExecResolve(i)

\* something goes wrong in exec of cycle i: the catch block of
\* ProcessContent.exec returns, exec of another Step raises
PipeExecFails(i) ==
    /\ Running
    /\ IF ExecCatches(pipe.cur)
       THEN /\ cyc[i].pc = "awaitExec"
            /\ UNCHANGED <<flowVars, orchVars, pipe, kind, maxRetries, wait,
                           fallbackKind, prepRes>>
            /\ Continue([cyc EXCEPT ![i] =
                            Returned(@, Degraded(cyc[i].item,
                                                 cyc[i].execCalls))],
                        currentRetry, i)
       ELSE ExecReject(i)

\* ProcessYouTubeURL.exec found videoInfo.error: process.exit(-1)
PipeExit ==
    /\ Running
    /\ pipe.cur = "ProcessYouTubeURL"
    /\ cyc[1].pc = "awaitExec"
    /\ pipe' = [pipe EXCEPT !.status = "exited"]
    /\ UNCHANGED <<nodeVars, flowVars, orchVars>>

\* the sleep of cycle i ends
PipeWakeUp(i) == Running /\ WakeUp(i)

\* execFallback raises: Node.execFallback the error it was given,
\* ProcessYouTubeURL.execFallback a new one
PipeFallbackRaise(i) ==
    /\ Running
    /\ pipe.cur # "ProcessContent"
    /\ FallbackRaise(i)

\* post of the Step returns the action a: getNextNode on the copy, then the
\* copy of the successor is run, or the loop of _orchestrate ends, post of
\* the Flow, which is BaseNode.post, returns and flow.run resolves
PipePostReturn(a) ==
    /\ Running
    /\ npc = "post"
    /\ a \in PostActions(pipe.cur)
    /\ LET nextNode == getNextNode(PipeSucc(pipe.cur), a)
       IN IF LoopEnds(nextNode)
          THEN /\ pipe' = [pipe EXCEPT !.status = "done",
                                       !.acts = Append(@, a)]
               /\ npc' = "done"
               /\ UNCHANGED <<kind, maxRetries, wait, fallbackKind, prepRes,
                              currentRetry, cyc, results, postArg, postCalls,
                              runError, doneOrder>>
          ELSE /\ pipe' = [pipe EXCEPT !.cur = nextNode,
                                       !.visits = Append(@, nextNode),
                                       !.acts = Append(@, a)]
               /\ Enter(nextNode)
    /\ UNCHANGED <<flowVars, orchVars>>

\* The Steps as constructed by createYouTubeProcessorFlow, and a video for
\* which prep of ProcessContent will return up to MaxItems items.
PipeInit ==
    /\ NoNode
    /\ NoFlow
    /\ OrchIdle
    /\ \E n \in 0..MaxItems : pipe = [NoPipe EXCEPT !.items = n]

PipeNext ==
    \/ PipeRun
    \/ PipePrepReturn
    \/ \E i \in 1..MaxItems : PipeExecResolve(i)
    \/ \E i \in 1..MaxItems : PipeExecFails(i)
    \/ PipeExit
    \/ \E i \in 1..MaxItems : PipeWakeUp(i)
    \/ \E i \in 1..MaxItems : PipeFallbackRaise(i)
    \/ \E a \in {"default", "error"} : PipePostReturn(a)

SpecPipe == PipeInit /\ [][PipeNext]_vars

\* the chain of the pipeline
PipeChain ==
    <<"ProcessYouTubeURL", "ExtractTopicsAndQuestions", "ProcessContent",
      "GenerateHTML">>

\* C37: the pipeline is the chain ProcessYouTubeURL,
\* ExtractTopicsAndQuestions, ProcessContent, GenerateHTML over default
\* edges only.  The Steps are visited in this order, a Step only after post
\* of every Step before it returned "default"; so GenerateHTML is visited
\* only after the three others returned "default".  When post of
\* ProcessYouTubeURL or ProcessContent returns "error", no successor is
\* registered under it: the traversal ends there, no later Step is visited,
\* nothing is raised, and flow.run resolves.
C37_PipelineChain ==
    /\ \A x \in PipeSteps :
          \A l \in DOMAIN PipeSucc(x) :
              PipeSucc(x)[l] # None => l = "default"
    /\ IsPrefix(pipe.visits, PipeChain)
    /\ pipe.status # "idle" =>
          /\ pipe.cur = pipe.visits[Len(pipe.visits)]
          /\ Len(pipe.acts) =
                (IF pipe.status = "done" THEN Len(pipe.visits)
                 ELSE Len(pipe.visits) - 1)
    /\ \A k \in 1..Len(pipe.acts) :
          /\ k < Len(pipe.visits) => pipe.acts[k] = "default"
          /\ pipe.acts[k] = "error" =>
                /\ pipe.visits[k] \in {"ProcessYouTubeURL", "ProcessContent"}
                /\ Len(pipe.visits) = k
                /\ pipe.status = "done"
                /\ npc = "done"
                /\ runError = NoVal
                /\ \A b \in {"default", "error"} : ~ENABLED PipePostReturn(b)
                /\ ~ENABLED PipePrepReturn
    /\ pipe.cur = "GenerateHTML" =>
          pipe.acts[1] = "default" /\ pipe.acts[2] = "default"
              /\ pipe.acts[3] = "default"
    /\ pipe.status = "done" =>
          \/ pipe.acts[Len(pipe.acts)] = "error"
          \/ pipe.visits = PipeChain

\* post of ProcessContent returned "error" after the two Steps before it
\* returned "default": the run of the Flow has ended without GenerateHTML.
C37_Witness ==
    /\ pipe.status = "done"
    /\ pipe.visits = <<"ProcessYouTubeURL", "ExtractTopicsAndQuestions",
                       "ProcessContent">>
    /\ pipe.acts = <<"default", "default", "error">>
    /\ pipe.items = 2
    /\ runError = NoVal

\* The four Steps were visited in order and the run has ended.
C37_WitnessChain ==
    /\ pipe.status = "done"
    /\ pipe.visits = PipeChain
    /\ pipe.acts = <<"default", "default", "default", "default">>

\* C38: ProcessContent never fails the pipeline and never retries.  For
\* every item its prep returned, exec is called once and returns, with its
\* result or with what its catch block returns; no attempt fails, no wait
\* and no call of execFallback follows; the run raises nothing while
\* ProcessContent is run; and post is called once, with one result for
\* each item, each computed from the item at its position.
C38_ProcessContentNeverFails ==
    pipe.cur = "ProcessContent" =>
        /\ kind = "BatchNode"
        /\ NCycles = pipe.items
        /\ npc # "raised"
        /\ runError = NoVal
        /\ \A i \in 1..MaxItems :
              /\ cyc[i].execCalls <= 1
              /\ cyc[i].fails = 0
              /\ cyc[i].waits = 0
              /\ cyc[i].fallbackCalls = 0
              /\ cyc[i].pc \in {"notStarted", "awaitExec", "returned"}
              /\ i > NCycles => cyc[i] = FreshCycle
        /\ npc \in {"post", "done"} =>
              /\ postCalls = 1
              /\ Len(postArg) = pipe.items
              /\ \A i \in Cycles :
                    /\ cyc[i].execCalls = 1
                    /\ postArg[i] = cyc[i].result
                    /\ postArg[i].of = ItemOf(i)
                    /\ postArg[i].attempt = 1
                    /\ postArg[i].via \in {"exec", "degraded"}

\* Of three items the second went wrong in exec: post of ProcessContent was
\* called with three results in the order of the items, the second the
\* structure of the catch block.
C38_Witness ==
    /\ pipe.cur = "ProcessContent"
    /\ pipe.items = 3
    /\ npc = "post"
    /\ postArg = <<ExecOut(ItemOf(1), 1), Degraded(ItemOf(2), 1),
                   ExecOut(ItemOf(3), 1)>>
    /\ \A i \in 1..3 : cyc[i].execCalls = 1 /\ cyc[i].fallbackCalls = 0

====
